---- MODULE Spec2Model ----
(***************************************************************************)
(* Semantic memory engine of acp-agents: the flat embedding store          *)
(* (vector_store.py) and, from the section fractal_memory.py on, the       *)
(* fractal index.  Every coroutine of the store runs on the one shared     *)
(* event loop of agent_runner.py (run_async), so a coroutine is suspended  *)
(* only at its await of the Embedding Provider; the synchronous sections   *)
(* are split into steps only so that a crash of the process and a failure  *)
(* of the disk can fall between them.  The model is of one process, the    *)
(* scope of the design (section 5).                                        *)
(***************************************************************************)
EXTENDS Integers, Sequences, FiniteSets, TLC

\* ------------------------------------------------------------------ bounds
\* MAX_ENTRIES is 10_000 in vector_store.py:24; the model scales it down.
MAX_ENTRIES == 3
\* values time.time() takes
MaxClock == 1
\* length of the history of appended entries that is kept
MaxHist == 4
\* length of the longest text a tree is built for
MaxTextLen == 2000
\* length of the longest text of the ingests of texts of every length
MaxIngestLen == 1000
\* length of the longest span chunk_text is called with alone
MaxSpan == 12
\* the largest window size chunk_text is called with alone
MaxWindow == 6

\* --------------------------------------------------------------- constants
\* search clamps top_k to at most 50 (vector_store.py:125)
MAX_TOP_K == 50
\* text[:MAX_TEXT_LENGTH] (vector_store.py:23)
MAX_TEXT_LENGTH == 8000
\* text[:200] in the entry id (vector_store.py:107)
ID_PREFIX == 200
\* search rounds a score to 4 decimals (vector_store.py:138): scores are
\* counted in units of 1/SCORE_SCALE
SCORE_SCALE == 10000
\* entry["text"][:500] in a search result (vector_store.py:137)
RESULT_TEXT == 500

Callers == {"c1", "c2"}
Searchers == {"s1"}
Procs == Callers \cup Searchers

\* Texts are sequences of characters.
Texts == { <<>>, <<" ">>, <<" ", "a">> }
Whitespace == {" ", "\t", "\n"}

\* Embedding vectors; <<>> is the empty vector a provider may answer.
Vecs == { <<1, 0>>, <<0, 1>> }

\* Caller-supplied metadata, or None.
Metas == { <<>> }

\* An optional value is a sequence of length 0 (None) or 1.
None == <<>>
Some(v) == <<v>>

\* ------------------------------------------------------ Embedding Provider
\* What the HTTP call of get_embedding ends with: an exception (transport
\* error, timeout, bad status), or a JSON body with its "embeddings" list and
\* its legacy "embedding" field.
Response(status, embeddings, embedding) ==
    [status |-> status, embeddings |-> embeddings, embedding |-> embedding]

\* The answers to a query: every shape of the body, every vector.
Responses ==
    { Response("error", <<>>, None), Response("ok", <<>>, None),
      Response("ok", <<>>, Some(<<>>)) }
    \cup { Response("ok", <<v>>, None) : v \in Vecs }
    \cup { Response("ok", <<>>, Some(v)) : v \in Vecs }

\* The answers to the text of an index call: every shape of the body.
IndexResponses ==
    { Response("error", <<>>, None), Response("ok", <<>>, None),
      Response("ok", <<>>, Some(<<>>)),
      Response("ok", << <<1, 0>> >>, None),
      Response("ok", <<>>, Some(<<1, 0>>)) }

\* get_embedding: Some(vector) or None.
get_embedding(resp) ==
    IF resp.status = "error" THEN None
    ELSE IF Len(resp.embeddings) > 0 THEN Some(resp.embeddings[1])
    ELSE IF resp.embedding # None /\ Len(resp.embedding[1]) > 0 THEN resp.embedding
    ELSE None

\* ------------------------------------------------------------- persistence
\* What a path of the disk holds.
\*   absent     no file
\*   unreadable open() raises IOError
\*   undecodable bytes that are not text of the encoding: read() raises
\*              UnicodeDecodeError
\*   badjson    text that is not JSON
\*   partial    the beginning of a JSON text (a write that did not finish)
\*   nonobject  valid JSON that is not an object (a list, a number)
\*   object     a JSON object; has_entries tells whether it has "entries"
File(kind, has, es, n) ==
    [kind |-> kind, has_entries |-> has, entries |-> es, count |-> n]

Absent == File("absent", FALSE, <<>>, 0)
Partial == File("partial", FALSE, <<>>, 0)

\* json.dump({"entries": self.entries, "count": len(self.entries)}, f)
Dump(es) == File("object", TRUE, es, Len(es))

\* _load: does the constructor raise on this file.  Only JSONDecodeError and
\* IOError are caught: data.get on a value that is not an object raises
\* AttributeError, read() of undecodable bytes raises UnicodeDecodeError.
LoadRaises(f) == f.kind \in {"nonobject", "undecodable"}

\* _load: the entry list after a load that did not raise
Load(f) ==
    IF f.kind = "object" /\ f.has_entries THEN f.entries ELSE <<>>

InitFiles ==
    { Absent,
      File("unreadable", FALSE, <<>>, 0),
      File("undecodable", FALSE, <<>>, 0),
      File("badjson", FALSE, <<>>, 0),
      File("nonobject", FALSE, <<>>, 0),
      File("object", FALSE, <<>>, 0),
      Dump(<<>>) }

\* ------------------------------------------------------------------- state
VARIABLES
    proc,       \* "boot": not constructed, "up", "failed": the constructor raised
    entries,    \* self.entries
    file,       \* the file at store_path
    tmp,        \* the file at store_path + ".tmp"
    lock,       \* holder of self._lock, or None
    pc,         \* position of each call
    local,      \* locals of each call
    ret,        \* what each call ended with
    clock,      \* time.time()
    mutated,    \* history: the call has changed self.entries or the store file
    serial,     \* history: no index call so far overlapped another or failed
    hist,       \* history: the entries appended so far, while serial
    trees,      \* FractalMemory.trees: the tree of each session, or None
    fpc,        \* position of each call of the fractal index
    flocal,     \* locals of each call of the fractal index
    fret,       \* what each call of the fractal index ended with
    stub,       \* which function of the text the Embedding Provider computes
    fhist       \* history: the ingest calls that overlap, and their passes

\* The state of the fractal index.
fvars == <<trees, fpc, flocal, fret, stub, fhist>>

vars == <<proc, entries, file, tmp, lock, pc, local, ret, clock, mutated,
          serial, hist, fvars>>

NoLocal == [text |-> <<>>, meta |-> None, entry |-> None, failed |-> FALSE,
            asked |-> 0, top_k |-> 0, query_embedding |-> None, snap |-> <<>>]
NoRet == [kind |-> "pending", id |-> None, results |-> <<>>, seen |-> <<>>,
          at |-> <<>>, total_entries |-> 0, oldest |-> None, newest |-> None]

\* The synchronous sections: while a call is in one of them the event loop
\* runs nothing else.
SyncPcs == {"evict", "append", "save_open", "save_write", "save_replace"}
LoopFree == \A p \in Procs : pc[p] \notin SyncPcs

InProgress(c) == pc[c] \notin {"idle", "done"}

\* FractalMemory.__init__: self.trees = {}; no call is in progress.
Sessions == {"a", "b"}
Ingesters == {"i1", "i2"}
Queriers == {"q1"}
FProcs == Ingesters \cup Queriers

\* One session and one caller of ingest.
OneSession == {"a"}
OneIngester == {"i1"}

NoFLocal == [session |-> "", text |-> None, tree |-> None, pos |-> 0,
             count |-> 0, top_k |-> 0, beam_width |-> 0, query_emb |-> None,
             chunk_size |-> 0, overlap |-> 0, chunks |-> <<>>]
NoFRet == [kind |-> "pending", total_nodes |-> 0, leaf_count |-> 0,
           embeddings_generated |-> 0, results |-> <<>>]

FractalInit ==
    /\ trees = [s \in Sessions |-> None]
    /\ fpc = [p \in FProcs |-> "idle"]
    /\ flocal = [p \in FProcs |-> NoFLocal]
    /\ fret = [p \in FProcs |-> NoFRet]
    /\ fhist = <<>>

Init ==
    /\ proc = "boot"
    /\ entries = <<>>
    /\ file \in InitFiles
    /\ tmp = Absent
    /\ lock = None
    /\ pc = [p \in Procs |-> "idle"]
    /\ local = [p \in Procs |-> NoLocal]
    /\ ret = [p \in Procs |-> NoRet]
    /\ clock = 0
    /\ mutated = [c \in Callers |-> FALSE]
    /\ serial = TRUE
    /\ hist = <<>>
    /\ FractalInit
    /\ stub = "same"

\* ------------------------------------------------------------------ helpers
Min(a, b) == IF a < b THEN a ELSE b
Max(a, b) == IF a > b THEN a ELSE b

\* s[:n]
Prefix(s, n) == SubSeq(s, 1, Min(n, Len(s)))

\* not text or not text.strip()
IsBlank_EmptyOnly(text) == text = <<>>
IsBlank(text) == text = <<>> \/ \A i \in 1..Len(text) : text[i] \in Whitespace

\* len(self.entries) >= MAX_ENTRIES
Full(es) == Len(es) >= MAX_ENTRIES

\* self.entries[1:]
Evicted_Newest(es) == SubSeq(es, 1, Len(es) - 1)
\* self.entries[-(MAX_ENTRIES - 1):], the list cut down to make room for one
Evicted_ToCapacity(es) == SubSeq(es, Len(es) - MAX_ENTRIES + 2, Len(es))
Evicted(es) == SubSeq(es, 2, Len(es))

\* hashlib.sha256(f"{text[:200]}{time.time()}").hexdigest()[:16]: the digest is
\* a function of the pair, taken here as the pair itself.
EntryId(text, t) == <<Prefix(text, ID_PREFIX), t>>

\* metadata or {}
NoMetadata == "{}"
MetadataOf(m) == IF m = None THEN NoMetadata ELSE m[1]

\* the entry index builds, lines 107-115; the two reads of time.time() fall in
\* the same value t of the clock
NewEntry(text, emb, meta, t) ==
    [id |-> EntryId(text, t),
     text |-> Prefix(text, MAX_TEXT_LENGTH),
     embedding |-> emb,
     metadata |-> MetadataOf(meta),
     timestamp |-> t,
     text_length |-> Len(text)]

\* _save, step by step: what the two paths hold after
\*   open(tmp_path, 'w')      the temporary file is truncated
\*   json.dump(...) and close the temporary file holds the whole snapshot
\*   os.replace(tmp, path)    the store file is the temporary file
Disk(f, t) == [file |-> f, tmp |-> t]
DiskAfterOpen_InPlace(f, t) == Disk(Partial, t)
DiskAfterOpen(f, t) == Disk(f, Partial)
DiskAfterWrite(f, t, es) == Disk(f, Dump(es))
DiskAfterReplace(f, t) == Disk(t, Absent)

\* ----------------------------------------------------------------- history
\* The index calls other than c that are in progress.
OthersInProgress(c) == {d \in Callers \ {c} : InProgress(d)}

\* A failed call, a crash or an overlap ends the serial history.
NotSerial == serial' = FALSE /\ hist' = <<>>

\* ----------------------------------------------------------- index, line 94
\* Lines 96-101: the blank test, the capacity test, and the acquisition of
\* the lock for the eviction.
IndexCall(c, text, meta) ==
    /\ proc = "up" /\ pc[c] = "idle" /\ LoopFree
    /\ local' = [local EXCEPT ![c] = [NoLocal EXCEPT !.text = text, !.meta = meta]]
    /\ mutated' = [mutated EXCEPT ![c] = FALSE]
    /\ IF IsBlank(text)
         THEN /\ pc' = [pc EXCEPT ![c] = "done"]
              /\ ret' = [ret EXCEPT ![c] = [NoRet EXCEPT !.kind = "none"]]
              /\ NotSerial
              /\ UNCHANGED lock
         ELSE /\ ret' = [ret EXCEPT ![c] = NoRet]
              /\ serial' = (serial /\ OthersInProgress(c) = {} /\ Len(hist) < MaxHist)
              /\ hist' = IF serial' THEN hist ELSE <<>>
              /\ IF Full(entries)
                   THEN /\ lock = None
                        /\ lock' = Some(c)
                        /\ pc' = [pc EXCEPT ![c] = "evict"]
                   ELSE /\ pc' = [pc EXCEPT ![c] = "embed"]
                        /\ UNCHANGED lock
    /\ UNCHANGED <<fvars, proc, entries, file, tmp, clock>>

\* The eviction leaving the lock held while the provider is awaited.
IndexEvict_KeepsLock(c) ==
    /\ proc = "up" /\ pc[c] = "evict" /\ lock = Some(c)
    /\ entries' = Evicted(entries)
    /\ mutated' = [mutated EXCEPT ![c] = @ \/ entries' # entries]
    /\ pc' = [pc EXCEPT ![c] = "embed"]
    /\ UNCHANGED <<fvars, proc, file, tmp, lock, local, ret, clock, serial, hist>>

\* Line 101, under the lock: self.entries = self.entries[1:]
IndexEvict(c) ==
    /\ proc = "up" /\ pc[c] = "evict" /\ lock = Some(c)
    /\ entries' = Evicted(entries)
    /\ mutated' = [mutated EXCEPT ![c] = @ \/ entries' # entries]
    /\ lock' = None
    /\ pc' = [pc EXCEPT ![c] = "embed"]
    /\ UNCHANGED <<fvars, proc, file, tmp, local, ret, clock, serial, hist>>

\* Lines 103-117: the provider answers; on None the call returns None, else
\* the entry is built and the lock acquired.
IndexEmbed(c, resp) ==
    /\ proc = "up" /\ pc[c] = "embed" /\ LoopFree
    /\ LET emb == get_embedding(resp) IN
         IF emb = None
           THEN /\ pc' = [pc EXCEPT ![c] = "done"]
                /\ ret' = [ret EXCEPT ![c] = [NoRet EXCEPT !.kind = "none"]]
                /\ local' = [local EXCEPT ![c].failed = TRUE]
                /\ NotSerial
                /\ UNCHANGED lock
           ELSE /\ lock = None
                /\ lock' = Some(c)
                /\ pc' = [pc EXCEPT ![c] = "append"]
                /\ local' = [local EXCEPT ![c].entry =
                       Some(NewEntry(local[c].text, emb[1], local[c].meta, clock))]
                /\ UNCHANGED <<ret, serial, hist>>
    /\ UNCHANGED <<fvars, proc, entries, file, tmp, clock, mutated>>

\* Line 118, under the lock: self.entries.append(entry)
IndexAppend(c) ==
    /\ proc = "up" /\ pc[c] = "append" /\ lock = Some(c)
    /\ entries' = Append(entries, local[c].entry[1])
    /\ mutated' = [mutated EXCEPT ![c] = TRUE]
    /\ pc' = [pc EXCEPT ![c] = "save_open"]
    /\ UNCHANGED <<fvars, proc, file, tmp, lock, local, ret, clock, serial, hist>>

\* An exception leaves the with block (the lock is released) and index.
Raise(c) ==
    /\ lock' = None
    /\ pc' = [pc EXCEPT ![c] = "done"]
    /\ ret' = [ret EXCEPT ![c] = [NoRet EXCEPT !.kind = "raised"]]
    /\ NotSerial

\* One step of _save by call c: the disk goes to d, the call to position to.
SaveStep(c, d, to) ==
    /\ file' = d.file
    /\ tmp' = d.tmp
    /\ mutated' = [mutated EXCEPT ![c] = @ \/ file' # file]
    /\ pc' = [pc EXCEPT ![c] = to]

\* _save lines 65-67: makedirs and open(tmp_path, 'w'), which may fail.
SaveOpen(c, ok) ==
    /\ proc = "up" /\ pc[c] = "save_open" /\ lock = Some(c)
    /\ IF ok
         THEN /\ SaveStep(c, DiskAfterOpen(file, tmp), "save_write")
              /\ UNCHANGED <<lock, ret, serial, hist>>
         ELSE /\ Raise(c)
              /\ UNCHANGED <<file, tmp, mutated>>
    /\ UNCHANGED <<fvars, proc, entries, local, clock>>

\* _save line 68 and the end of the with: json.dump and close, which may fail
\* (disk full) after a part of the text is written.
SaveWrite(c, ok) ==
    /\ proc = "up" /\ pc[c] = "save_write" /\ lock = Some(c)
    /\ IF ok
         THEN /\ SaveStep(c, DiskAfterWrite(file, tmp, entries), "save_replace")
              /\ UNCHANGED <<lock, ret, serial, hist>>
         ELSE /\ Raise(c)
              /\ UNCHANGED <<file, tmp, mutated>>
    /\ UNCHANGED <<fvars, proc, entries, local, clock>>

\* _save line 69, then lines 119-121: os.replace, which may fail; the lock is
\* released and index returns the id.
SaveReplace(c, ok) ==
    /\ proc = "up" /\ pc[c] = "save_replace" /\ lock = Some(c)
    /\ IF ok
         THEN /\ SaveStep(c, DiskAfterReplace(file, tmp), "done")
              /\ lock' = None
              /\ ret' = [ret EXCEPT ![c] =
                     [NoRet EXCEPT !.kind = "id", !.id = Some(local[c].entry[1].id)]]
              /\ serial' = serial
              /\ hist' = IF serial THEN Append(hist, local[c].entry[1]) ELSE <<>>
         ELSE /\ Raise(c)
              /\ UNCHANGED <<file, tmp, mutated>>
    /\ UNCHANGED <<fvars, proc, entries, local, clock>>

\* The caller takes the result of its call.
IndexReturn(c) ==
    /\ proc = "up" /\ pc[c] = "done"
    /\ pc' = [pc EXCEPT ![c] = "idle"]
    /\ local' = [local EXCEPT ![c] = NoLocal]
    /\ ret' = [ret EXCEPT ![c] = NoRet]
    /\ mutated' = [mutated EXCEPT ![c] = FALSE]
    /\ UNCHANGED <<fvars, proc, entries, file, tmp, lock, clock, serial, hist>>

\* time.time() advances.
Tick ==
    /\ clock < MaxClock
    /\ clock' = clock + 1
    /\ UNCHANGED <<fvars, proc, entries, file, tmp, lock, pc, local, ret, mutated,
                   serial, hist>>

\* The process dies at any point and is started again: the memory is lost,
\* the disk stays.
Crash ==
    /\ proc = "up"
    /\ proc' = "boot"
    /\ entries' = <<>>
    /\ lock' = None
    /\ pc' = [p \in Procs |-> "idle"]
    /\ local' = [p \in Procs |-> NoLocal]
    /\ ret' = [p \in Procs |-> NoRet]
    /\ mutated' = [c \in Callers |-> FALSE]
    /\ NotSerial
    /\ trees' = [s \in Sessions |-> None]
    /\ fpc' = [p \in FProcs |-> "idle"]
    /\ flocal' = [p \in FProcs |-> NoFLocal]
    /\ fret' = [p \in FProcs |-> NoFRet]
    /\ fhist' = <<>>
    /\ UNCHANGED <<file, tmp, clock, stub>>

\* --------------------------------------------------------- search, line 123
\* sum(x * y for x, y in zip(a, b))
RECURSIVE Dot(_, _)
Dot(a, b) ==
    IF a = <<>> \/ b = <<>> THEN 0
    ELSE a[1] * b[1] + Dot(Tail(a), Tail(b))

\* The least r in lo..hi with x < (2r+1)^2 * n: the number of units nearest to
\* sqrt(x / (4n)).
RECURSIVE NearestRoot(_, _, _, _)
NearestRoot(x, n, lo, hi) ==
    IF lo >= hi THEN lo
    ELSE LET mid == (lo + hi) \div 2 IN
         IF x < (2 * mid + 1) * (2 * mid + 1) * n
           THEN NearestRoot(x, n, lo, mid)
           ELSE NearestRoot(x, n, mid + 1, hi)

Abs(x) == IF x < 0 THEN 0 - x ELSE x

RECURSIVE Gcd(_, _)
Gcd(a, b) == IF b = 0 THEN a ELSE Gcd(b, a % b)

RECURSIVE GcdOf(_)
GcdOf(v) == IF v = <<>> THEN 0 ELSE Gcd(Abs(v[1]), GcdOf(Tail(v)))

\* The vector of the same direction whose components have no common divisor:
\* the similarity of two vectors is that of their primitive vectors, which
\* keeps the products small.
Primitive(v) ==
    LET g == GcdOf(v) IN
    IF g = 0 THEN v ELSE [i \in 1..Len(v) |-> v[i] \div g]

\* A similarity is the number dot / sqrt(n2), n2 > 0.  The 0.0 of vectors of
\* different lengths and of a zero vector:
NoSimilarity == [dot |-> 0, n2 |-> 1]

\* cosine_similarity(a, b): 0.0 for vectors of different lengths or a zero
\* norm, else dot / (norm_a * norm_b).
cosine_similarity_Zip(a, b) ==
    LET pa == Primitive(a)
        pb == Primitive(b)
        n2 == Dot(pa, pa) * Dot(pb, pb)
    IN IF n2 = 0 THEN NoSimilarity ELSE [dot |-> Dot(pa, pb), n2 |-> n2]

cosine_similarity(a, b) ==
    IF Len(a) # Len(b) THEN NoSimilarity
    ELSE LET pa == Primitive(a)
             pb == Primitive(b)
             n2 == Dot(pa, pa) * Dot(pb, pb)
         IN IF n2 = 0 THEN NoSimilarity ELSE [dot |-> Dot(pa, pb), n2 |-> n2]

\* round(score, 4), in units of 1/SCORE_SCALE: the r nearest to
\* SCORE_SCALE * |dot| / sqrt(n2), which is the least r with
\* 4 * SCORE_SCALE^2 * dot^2 / n2 < (2r + 1)^2; the quotient is taken by long
\* division.
Round4(c) ==
    LET a == 4 * SCORE_SCALE * c.dot * c.dot
        y == (a \div c.n2) * SCORE_SCALE + ((a % c.n2) * SCORE_SCALE) \div c.n2
        r == NearestRoot(y, 1, 0, SCORE_SCALE)
    IN IF c.dot < 0 THEN 0 - r ELSE r

\* score1 > score2 of two similarities, as the sort of beam_search compares
\* them before any rounding.
Signed(c) == IF c.dot < 0 THEN 0 - c.dot * c.dot ELSE c.dot * c.dot
ScoreGreater(c1, c2) == Signed(c1) * c2.n2 > Signed(c2) * c1.n2

\* top_k = min(max(top_k, 1), 50)
Clamp_NoCeiling(top_k) == Max(top_k, 1)
Clamp(top_k) == Min(Max(top_k, 1), MAX_TOP_K)

\* Lines 130-141: the results of the entries that carry an embedding, in the
\* order of the list.
RECURSIVE Scored(_, _)
Scored(es, qe) ==
    IF es = <<>> THEN <<>>
    ELSE LET e == es[1] IN
         (IF Len(e.embedding) > 0
            THEN << [id |-> e.id,
                     text |-> Prefix(e.text, RESULT_TEXT),
                     score |-> Round4(cosine_similarity(qe, e.embedding)),
                     metadata |-> e.metadata,
                     timestamp |-> e.timestamp] >>
            ELSE <<>>)
         \o Scored(Tail(es), qe)

\* scored.sort(key=score, reverse=True): a stable sort, equal scores keep
\* the order of the list.
RECURSIVE InsertDesc_Asc(_, _)
InsertDesc_Asc(r, sorted) ==
    IF sorted = <<>> THEN <<r>>
    ELSE IF r.score < sorted[1].score THEN <<r>> \o sorted
    ELSE <<sorted[1]>> \o InsertDesc_Asc(r, Tail(sorted))

RECURSIVE InsertDesc(_, _)
InsertDesc(r, sorted) ==
    IF sorted = <<>> THEN <<r>>
    ELSE IF r.score > sorted[1].score THEN <<r>> \o sorted
    ELSE <<sorted[1]>> \o InsertDesc(r, Tail(sorted))

SortDesc_Unsorted(rs) == rs

RECURSIVE SortDesc(_)
SortDesc(rs) ==
    IF rs = <<>> THEN <<>>
    ELSE InsertDesc(rs[Len(rs)], SortDesc(SubSeq(rs, 1, Len(rs) - 1)))

\* The list the loop of line 131 iterates: self.entries when the loop runs.
ScanSource_AtCall(s) == local[s].snap
ScanSource(s) == entries

\* Lines 125-126: the clamp, then the await of the provider.
SearchCall(s, top_k) ==
    /\ proc = "up" /\ pc[s] = "idle" /\ LoopFree
    /\ pc' = [pc EXCEPT ![s] = "embed"]
    /\ local' = [local EXCEPT ![s] =
           [NoLocal EXCEPT !.asked = top_k, !.top_k = Clamp(top_k),
                           !.snap = entries]]
    /\ ret' = [ret EXCEPT ![s] = NoRet]
    /\ UNCHANGED <<fvars, proc, entries, file, tmp, lock, clock, mutated, serial, hist>>

\* Lines 127-144: the provider answers; on None the result is the empty list,
\* else the entries are scored, sorted, and the first top_k returned.
SearchEmbed_NoneAsEmptyVector(s, resp) ==
    /\ proc = "up" /\ pc[s] = "embed" /\ LoopFree
    /\ pc' = [pc EXCEPT ![s] = "done"]
    /\ LET qe == get_embedding(resp)
           q == IF qe = None THEN <<>> ELSE qe[1]
       IN /\ ret' = [ret EXCEPT ![s] =
                 [NoRet EXCEPT
                    !.kind = "results",
                    !.seen = ScanSource(s),
                    !.at = entries,
                    !.results = Prefix(SortDesc(Scored(ScanSource(s), q)),
                                       local[s].top_k)]]
          /\ local' = [local EXCEPT ![s].failed = (qe = None),
                                    ![s].query_embedding = qe]
    /\ UNCHANGED <<fvars, proc, entries, file, tmp, lock, clock, mutated, serial, hist>>

SearchEmbed(s, resp) ==
    /\ proc = "up" /\ pc[s] = "embed" /\ LoopFree
    /\ pc' = [pc EXCEPT ![s] = "done"]
    /\ LET qe == get_embedding(resp) IN
         IF qe = None
           THEN /\ ret' = [ret EXCEPT ![s] = [NoRet EXCEPT !.kind = "results"]]
                /\ local' = [local EXCEPT ![s].failed = TRUE]
           ELSE /\ ret' = [ret EXCEPT ![s] =
                      [NoRet EXCEPT
                         !.kind = "results",
                         !.seen = ScanSource(s),
                         !.at = entries,
                         !.results = Prefix(SortDesc(Scored(ScanSource(s), qe[1])),
                                            local[s].top_k)]]
                /\ local' = [local EXCEPT ![s].query_embedding = qe]
    /\ UNCHANGED <<fvars, proc, entries, file, tmp, lock, clock, mutated, serial, hist>>

\* The caller takes the result of its search.
SearchReturn(s) ==
    /\ proc = "up" /\ pc[s] = "done"
    /\ pc' = [pc EXCEPT ![s] = "idle"]
    /\ local' = [local EXCEPT ![s] = NoLocal]
    /\ ret' = [ret EXCEPT ![s] = NoRet]
    /\ UNCHANGED <<fvars, proc, entries, file, tmp, lock, clock, mutated, serial, hist>>

\* ---------------------------------------------------------- stats, line 146
\* stats is not a coroutine: the HTTP handler calls it on its own thread
\* (agent_runner.py:283) while the loop runs the index calls, so it waits for
\* no synchronous section of theirs, and each of its reads of self.entries
\* sees the list of its own instant.  Of the dictionary the model keeps
\* total_entries, oldest and newest.  Line 149: len(self.entries).
StatsCall(s) ==
    /\ proc = "up" /\ pc[s] = "idle"
    /\ pc' = [pc EXCEPT ![s] = "stats_oldest"]
    /\ local' = [local EXCEPT ![s] = NoLocal]
    /\ ret' = [ret EXCEPT ![s] = [NoRet EXCEPT !.total_entries = Len(entries)]]
    /\ UNCHANGED <<fvars, proc, entries, file, tmp, lock, clock, mutated, serial, hist>>

\* Line 154: self.entries[0]["timestamp"] if self.entries else None
StatsOldest(s) ==
    /\ proc = "up" /\ pc[s] = "stats_oldest"
    /\ pc' = [pc EXCEPT ![s] = "stats_newest"]
    /\ ret' = [ret EXCEPT ![s].oldest =
           IF entries = <<>> THEN None ELSE Some(entries[1].timestamp)]
    /\ UNCHANGED <<fvars, proc, entries, file, tmp, lock, local, clock, mutated,
                   serial, hist>>

StatsNewest_First(s) ==
    /\ proc = "up" /\ pc[s] = "stats_newest"
    /\ pc' = [pc EXCEPT ![s] = "done"]
    /\ ret' = [ret EXCEPT ![s].kind = "stats",
                          ![s].newest =
           IF entries = <<>> THEN None ELSE Some(entries[1].timestamp)]
    /\ UNCHANGED <<fvars, proc, entries, file, tmp, lock, local, clock, mutated,
                   serial, hist>>

\* Line 155: self.entries[-1]["timestamp"] if self.entries else None
StatsNewest(s) ==
    /\ proc = "up" /\ pc[s] = "stats_newest"
    /\ pc' = [pc EXCEPT ![s] = "done"]
    /\ ret' = [ret EXCEPT ![s].kind = "stats",
                          ![s].newest =
           IF entries = <<>> THEN None
           ELSE Some(entries[Len(entries)].timestamp)]
    /\ UNCHANGED <<fvars, proc, entries, file, tmp, lock, local, clock, mutated,
                   serial, hist>>

\* VectorStore.__init__ and _load
Construct ==
    /\ proc = "boot"
    /\ IF LoadRaises(file)
         THEN proc' = "failed" /\ UNCHANGED entries
         ELSE proc' = "up" /\ entries' = Load(file)
    /\ UNCHANGED <<fvars, file, tmp, lock, pc, local, ret, clock, mutated, serial, hist>>

Next ==
    \/ Construct
    \/ \E c \in Callers, text \in Texts, meta \in Metas : IndexCall(c, text, meta)
    \/ \E c \in Callers : IndexEvict(c)
    \/ \E c \in Callers, resp \in IndexResponses : IndexEmbed(c, resp)
    \/ \E c \in Callers : IndexAppend(c)
    \/ \E c \in Callers, ok \in BOOLEAN : SaveOpen(c, ok)
    \/ \E c \in Callers, ok \in BOOLEAN : SaveWrite(c, ok)
    \/ \E c \in Callers, ok \in BOOLEAN : SaveReplace(c, ok)
    \/ \E c \in Callers : IndexReturn(c)
    \/ Tick
    \/ Crash

Spec == Init /\ [][Next]_vars

\* The index calls of both callers with a disk that does not fail and a
\* process that does not crash.
NextDiskOk ==
    \/ Construct
    \/ \E c \in Callers, text \in Texts, meta \in Metas : IndexCall(c, text, meta)
    \/ \E c \in Callers : IndexEvict(c)
    \/ \E c \in Callers, resp \in IndexResponses : IndexEmbed(c, resp)
    \/ \E c \in Callers : IndexAppend(c)
    \/ \E c \in Callers : SaveOpen(c, TRUE)
    \/ \E c \in Callers : SaveWrite(c, TRUE)
    \/ \E c \in Callers : SaveReplace(c, TRUE)
    \/ \E c \in Callers : IndexReturn(c)
    \/ Tick

SpecDiskOk == Init /\ [][NextDiskOk]_vars

\* One index caller at a time and one searcher; the provider answers an index
\* call with a vector that is a function of the text (a stub provider), the
\* disk does not fail, the process does not crash and the calls fall within
\* one value of the clock.
SearchTexts == Texts \cup { <<"b">> }

StubResponse(text) ==
    Response("ok", << IF text = <<"b">> THEN <<0, 1>> ELSE <<1, 0>> >>, None)

TopKs == {0, 2, 51}

NextSearch ==
    \/ Construct
    \/ \E text \in SearchTexts, meta \in Metas : IndexCall("c1", text, meta)
    \/ IndexEvict("c1")
    \/ IndexEmbed("c1", StubResponse(local["c1"].text))
    \/ IndexAppend("c1")
    \/ SaveOpen("c1", TRUE)
    \/ SaveWrite("c1", TRUE)
    \/ SaveReplace("c1", TRUE)
    \/ IndexReturn("c1")
    \/ \E s \in Searchers, top_k \in TopKs : SearchCall(s, top_k)
    \/ \E s \in Searchers, resp \in Responses : SearchEmbed(s, resp)
    \/ \E s \in Searchers : SearchReturn(s)

InitSearch == Init /\ file = Absent

SpecSearch == InitSearch /\ [][NextSearch]_vars

\* A store constructed from the file an earlier run left, then searched.  The
\* file holds entries of every shape of embedding a provider has answered:
\* the empty vector, vectors of two lengths, the zero vector.  _load does not
\* bound the number of entries it reads: the long files hold about MAX_TOP_K
\* entries, each with an embedding.
RankVecs == { <<>>, <<1>>, <<0, 0>>, <<1, 0>>, <<1, 1>>, <<-1, 0>> }

\* The entry an index call at time t made of the text " a".
StoredEntry(t, emb) == NewEntry(<<" ", "a">>, emb, None, t)

ShortStores ==
    UNION { { [i \in 1..n |-> StoredEntry(i, f[i])] : f \in [1..n -> RankVecs] }
            : n \in 0..MAX_ENTRIES }

LongStore(n) ==
    [i \in 1..n |-> StoredEntry(i, IF i % 2 = 0 THEN <<1, 0>> ELSE <<1, 1>>)]

LongStores == { LongStore(n) : n \in (MAX_TOP_K - 1)..(MAX_TOP_K + 1) }

RankTopKs == {-1, 0, 1, 2, MAX_TOP_K, MAX_TOP_K + 1}

RankResponses ==
    { Response("error", <<>>, None) }
    \cup { Response("ok", <<v>>, None) : v \in RankVecs }

NextRank ==
    \/ Construct
    \/ \E s \in Searchers, top_k \in RankTopKs : SearchCall(s, top_k)
    \/ \E s \in Searchers, resp \in RankResponses : SearchEmbed(s, resp)
    \/ \E s \in Searchers : SearchReturn(s)

InitRank ==
    /\ proc = "boot"
    /\ entries = <<>>
    /\ file \in { Dump(es) : es \in ShortStores \cup LongStores }
    /\ tmp = Absent
    /\ lock = None
    /\ pc = [p \in Procs |-> "idle"]
    /\ local = [p \in Procs |-> NoLocal]
    /\ ret = [p \in Procs |-> NoRet]
    /\ clock = 0
    /\ mutated = [c \in Callers |-> FALSE]
    /\ serial = FALSE
    /\ hist = <<>>
    /\ FractalInit
    /\ stub = "same"

SpecRank == InitRank /\ [][NextRank]_vars

\* ===================================================== fractal_memory.py
FIBONACCI_SIZES == <<987, 610, 377, 233, 144>>
FIBONACCI_OVERLAPS == <<89, 61, 37, 23, 14>>
NUM_LEVELS == 5
BEAM_WIDTH == 3
TOP_K == 5
\* len(node.text) >= 10 (fractal_memory.py:135)
MIN_LEAF_TEXT == 10
\* node.text[:500] (fractal_memory.py:213)
PREVIEW_TEXT == 500

\* A text of the fractal index is a span of one synthetic text, of which every
\* ingested text is a beginning: the characters from..to-1.
TextOf(from, to) == [to |-> to, from |-> from]
EmptyText == TextOf(0, 0)
TextLen(text) == text.to - text.from

\* text[i:j], for 0 <= i; a negative j counts from the end.
Slice(text, i, j) ==
    LET n == TextLen(text)
        a == Min(i, n)
        e == IF j < 0 THEN Max(j + n, 0) ELSE Min(j, n)
        b == Max(e, a)
    IN TextOf(text.from + a, text.from + b)

\* FractalNode.__init__; a tree is the sequence of its nodes in the order of
\* their creation, the root first, and children holds positions in it.
FractalNode(level, text, start, end) ==
    [level |-> level, text |-> text, start |-> start, end |-> end,
     embedding |-> None, centroid |-> None, children |-> <<>>]

\* The loop of chunk_text from offset i on.
RECURSIVE ChunksFrom_NoBreak(_, _, _, _)
ChunksFrom_NoBreak(text, chunk_size, step, i) ==
    IF i >= TextLen(text) THEN <<>>
    ELSE LET end == Min(i + chunk_size, TextLen(text)) IN
         << <<i, end, Slice(text, i, end)>> >>
         \o ChunksFrom_NoBreak(text, chunk_size, step, i + step)

RECURSIVE ChunksFrom(_, _, _, _)
ChunksFrom(text, chunk_size, step, i) ==
    IF i >= TextLen(text) THEN <<>>
    ELSE LET end == Min(i + chunk_size, TextLen(text))
             chunk == <<i, end, Slice(text, i, end)>>
         IN IF end >= TextLen(text) THEN <<chunk>>
            ELSE <<chunk>> \o ChunksFrom(text, chunk_size, step, i + step)

chunk_text_NoOverlap(text, chunk_size, overlap) ==
    IF TextLen(text) = 0 THEN <<>>
    ELSE ChunksFrom(text, chunk_size, Max(chunk_size, 1), 0)

chunk_text(text, chunk_size, overlap) ==
    IF TextLen(text) = 0 THEN <<>>
    ELSE ChunksFrom(text, chunk_size, Max(chunk_size - overlap, 1), 0)

\* build_level: the nodes made for a parent, in the order of creation, and the
\* positions of the parent's children; base is the number of nodes that exist.
NoNodes == [nodes |-> <<>>, kids |-> <<>>]

RECURSIVE build_level(_, _, _, _)
RECURSIVE build_nodes(_, _, _, _)
build_level_Shallow(parent_text, parent_start, level, base) ==
    IF level >= NUM_LEVELS - 1 THEN NoNodes
    ELSE build_nodes(chunk_text(parent_text, FIBONACCI_SIZES[level + 1],
                                FIBONACCI_OVERLAPS[level + 1]),
                     parent_start, level, base)

build_level(parent_text, parent_start, level, base) ==
    IF level >= NUM_LEVELS THEN NoNodes
    ELSE build_nodes(chunk_text(parent_text, FIBONACCI_SIZES[level + 1],
                                FIBONACCI_OVERLAPS[level + 1]),
                     parent_start, level, base)

\* The offsets of a node taken within its parent's text.
build_nodes_RelativeOffsets(chunks, parent_start, level, base) ==
    IF chunks = <<>> THEN NoNodes
    ELSE LET start == chunks[1][1]
             end == chunks[1][2]
             chunk == chunks[1][3]
             me == base + 1
             sub == IF level < NUM_LEVELS - 1
                      THEN build_level(chunk, parent_start + start, level + 1, me)
                      ELSE NoNodes
             node == [FractalNode(level, chunk, start, end)
                        EXCEPT !.children = sub.kids]
             rest == build_nodes(Tail(chunks), parent_start, level,
                                 me + Len(sub.nodes))
         IN [nodes |-> <<node>> \o sub.nodes \o rest.nodes,
             kids |-> <<me>> \o rest.kids]

\* The loop of lines 87-96 over the chunks that are left.
build_nodes(chunks, parent_start, level, base) ==
    IF chunks = <<>> THEN NoNodes
    ELSE LET start == chunks[1][1]
             end == chunks[1][2]
             chunk == chunks[1][3]
             me == base + 1
             sub == IF level < NUM_LEVELS - 1
                      THEN build_level(chunk, parent_start + start, level + 1, me)
                      ELSE NoNodes
             node == [FractalNode(level, chunk, parent_start + start,
                                  parent_start + end)
                        EXCEPT !.children = sub.kids]
             rest == build_nodes(Tail(chunks), parent_start, level,
                                 me + Len(sub.nodes))
         IN [nodes |-> <<node>> \o sub.nodes \o rest.nodes,
             kids |-> <<me>> \o rest.kids]

\* build_fractal_tree: None, the one node of a short text, or the synthetic
\* root and its levels.
build_fractal_tree(text) ==
    IF TextLen(text) = 0 THEN None
    ELSE IF TextLen(text) < FIBONACCI_SIZES[Len(FIBONACCI_SIZES)]
      THEN Some(<< FractalNode(0, text, 0, TextLen(text)) >>)
    ELSE LET built == build_level(text, 0, 0, 1) IN
         Some(<< [FractalNode(-1, EmptyText, 0, TextLen(text))
                    EXCEPT !.children = built.kids] >> \o built.nodes)

\* get_leaves(node), as positions
RECURSIVE get_leaves(_, _)
RECURSIVE LeavesOfAll(_, _)
get_leaves(tree, node) ==
    IF tree[node].children = <<>> THEN <<node>>
    ELSE LeavesOfAll(tree, tree[node].children)

LeavesOfAll(tree, nodes) ==
    IF nodes = <<>> THEN <<>>
    ELSE get_leaves(tree, nodes[1]) \o LeavesOfAll(tree, Tail(nodes))

\* FractalMemory._count_nodes(node)
RECURSIVE count_nodes(_, _)
RECURSIVE CountAll(_, _)
count_nodes(tree, node) == 1 + CountAll(tree, tree[node].children)

CountAll(tree, nodes) ==
    IF nodes = <<>> THEN 0
    ELSE count_nodes(tree, nodes[1]) + CountAll(tree, Tail(nodes))

\* The truth value of an optional list: neither None nor empty.
Truthy(opt) == opt # None /\ Len(opt[1]) > 0

\* compute_centroid: the sum of the i-th components of the vectors that have
\* one, divided by the number of vectors.
RECURSIVE SumAt(_, _)
SumAt(embeddings, i) ==
    IF embeddings = <<>> THEN 0
    ELSE (IF i <= Len(embeddings[1]) THEN embeddings[1][i] ELSE 0)
         + SumAt(Tail(embeddings), i)

compute_centroid_ZeroVector(embeddings) ==
    IF embeddings = <<>> THEN Some(<<0, 0>>)
    ELSE Some([i \in 1..Len(embeddings[1]) |->
                  SumAt(embeddings, i) \div Len(embeddings)])

compute_centroid(embeddings) ==
    IF embeddings = <<>> THEN None
    ELSE Some([i \in 1..Len(embeddings[1]) |->
                  SumAt(embeddings, i) \div Len(embeddings)])

\* ------------------------------------------------------ embed_tree, line 126
\* The stub Embedding Provider: a deterministic function of the text.  Its
\* vectors are multiples of 16, so that the means of the (at most two)
\* children of a node, four levels deep, are whole numbers.
\*   same   every text has the same vector
\*   first  the texts that begin the ingested text have a vector of their own
\*   third  the text at the start of the third window of level 0 has a vector
\*          of its own, and the texts after it the opposite one
Stubs == {"same", "first", "third"}

ThirdWindow == 2 * (FIBONACCI_SIZES[1] - FIBONACCI_OVERLAPS[1])

StubVector(kind, text) ==
    CASE kind = "same" -> <<16, 0>>
      [] kind = "first" -> IF text.from = 0 THEN <<16, 0>> ELSE <<0, 16>>
      [] kind = "third" ->
            IF text.from = ThirdWindow THEN <<16, 0>>
            ELSE IF text.from > ThirdWindow THEN <<-16, 0>>
            ELSE <<16, 16>>

\* The answer of the stub to text[:MAX_TEXT_LENGTH].
StubAnswer(kind, text) ==
    Response("ok", << StubVector(kind, Slice(text, 0, MAX_TEXT_LENGTH)) >>, None)

\* The node whose children hold node, or 0.
ParentOf(tree, node) ==
    IF \E p \in 1..Len(tree) :
          \E i \in 1..Len(tree[p].children) : tree[p].children[i] = node
      THEN CHOOSE p \in 1..Len(tree) :
              \E i \in 1..Len(tree[p].children) : tree[p].children[i] = node
      ELSE 0

\* Lines 147-152: of each child its embedding if it has one, else its
\* centroid if it has one.
RECURSIVE ChildEmbs(_, _)
ChildEmbs(tree, children) ==
    IF children = <<>> THEN <<>>
    ELSE LET child == tree[children[1]] IN
         (IF Truthy(child.embedding) THEN <<child.embedding[1]>>
          ELSE IF Truthy(child.centroid) THEN <<child.centroid[1]>>
          ELSE <<>>)
         \o ChildEmbs(tree, Tail(children))

\* embed_node(node) has returned: the loop of line 143 of its parent goes on,
\* and when node was the last child the parent gets its centroid and returns
\* in turn.  The root is not visited: line 155 calls embed_node on its
\* children.
RECURSIVE Returned_FirstChild(_, _)
Returned_FirstChild(tree, node) ==
    LET p == ParentOf(tree, node) IN
    IF p <= 1 THEN tree
    ELSE IF tree[p].children[1] # node THEN tree
    ELSE Returned_FirstChild(
             [tree EXCEPT ![p].centroid =
                 compute_centroid(ChildEmbs(tree, tree[p].children))], p)

RECURSIVE Returned(_, _)
Returned(tree, node) ==
    LET p == ParentOf(tree, node) IN
    IF p <= 1 THEN tree
    ELSE IF tree[p].children[Len(tree[p].children)] # node THEN tree
    ELSE Returned([tree EXCEPT ![p].centroid =
                      compute_centroid(ChildEmbs(tree, tree[p].children))], p)

\* The leaves below the root's children are visited in the order of creation.
NextLeaf(tree, node) ==
    IF \E j \in (node + 1)..Len(tree) : tree[j].children = <<>>
      THEN CHOOSE j \in (node + 1)..Len(tree) :
              /\ tree[j].children = <<>>
              /\ \A i \in (node + 1)..(j - 1) : tree[i].children # <<>>
      ELSE 0

\* The traversal runs from the return of embed_node(node) to its next await
\* (pos is the leaf whose text is sent) or to its end (pos = 0); a leaf of
\* less than MIN_LEAF_TEXT characters returns at once.
RECURSIVE Advance(_, _, _)
Advance(tree, node, count) ==
    LET t == Returned(tree, node)
        leaf == NextLeaf(t, node)
    IN IF leaf = 0 THEN [tree |-> t, pos |-> 0, count |-> count]
       ELSE IF TextLen(t[leaf].text) >= MIN_LEAF_TEXT
         THEN [tree |-> t, pos |-> leaf, count |-> count]
       ELSE Advance(t, leaf, count)

\* Lines 241-250: the tree is stored, and the counts returned.
Indexed(tree, count) ==
    [NoFRet EXCEPT !.kind = "indexed",
                   !.total_nodes = count_nodes(tree, 1),
                   !.leaf_count = Len(get_leaves(tree, 1)),
                   !.embeddings_generated = count]

\* The history of the ingest calls that overlap: a call made while no other
\* call awaits the provider begins it anew; it holds the calls in the order
\* they were made and the trees in the order embed_tree returned them
\* (line 240).
Event(op, c, session, tree) ==
    [op |-> op, by |-> c, session |-> session, tree |-> tree]

PassRunning(c) == \E d \in Ingesters \ {c} : fpc[d] = "embed"

HistoryFrom(c, session, run) ==
    LET base == IF fpc[c] # "idle" THEN fhist
                ELSE (IF PassRunning(c) THEN fhist ELSE <<>>)
                     \o << Event("call", c, session, None) >>
    IN base \o (IF run.pos = 0
                  THEN << Event("pass", c, session, Some(run.tree)) >>
                  ELSE <<>>)

IngestStep_KeepsFirst(c, session, text, run) ==
    /\ fhist' = HistoryFrom(c, session, run)
    /\ IF run.pos = 0
         THEN /\ trees' = IF trees[session] = None
                            THEN [trees EXCEPT ![session] = Some(run.tree)]
                            ELSE trees
              /\ fpc' = [fpc EXCEPT ![c] = "done"]
              /\ fret' = [fret EXCEPT ![c] = Indexed(run.tree, run.count)]
              /\ flocal' = [flocal EXCEPT ![c] =
                     [NoFLocal EXCEPT !.session = session, !.text = Some(text),
                                      !.tree = Some(run.tree),
                                      !.count = run.count]]
         ELSE /\ fpc' = [fpc EXCEPT ![c] = "embed"]
              /\ flocal' = [flocal EXCEPT ![c] =
                     [NoFLocal EXCEPT !.session = session, !.text = Some(text),
                                      !.tree = Some(run.tree),
                                      !.pos = run.pos, !.count = run.count]]
              /\ fret' = [fret EXCEPT ![c] = NoFRet]
              /\ UNCHANGED trees

\* The tree stored when the call begins, before the pass, and the object
\* stored changing with the pass.
IngestStep_StoresAtCall(c, session, text, run) ==
    /\ fhist' = HistoryFrom(c, session, run)
    /\ trees' = IF fpc[c] = "idle" \/ trees[session] = flocal[c].tree
                  THEN [trees EXCEPT ![session] = Some(run.tree)]
                  ELSE trees
    /\ IF run.pos = 0
         THEN
              /\ fpc' = [fpc EXCEPT ![c] = "done"]
              /\ fret' = [fret EXCEPT ![c] = Indexed(run.tree, run.count)]
              /\ flocal' = [flocal EXCEPT ![c] =
                     [NoFLocal EXCEPT !.session = session, !.text = Some(text),
                                      !.tree = Some(run.tree),
                                      !.count = run.count]]
         ELSE /\ fpc' = [fpc EXCEPT ![c] = "embed"]
              /\ flocal' = [flocal EXCEPT ![c] =
                     [NoFLocal EXCEPT !.session = session, !.text = Some(text),
                                      !.tree = Some(run.tree),
                                      !.pos = run.pos, !.count = run.count]]
              /\ fret' = [fret EXCEPT ![c] = NoFRet]

\* The tree stored at every await of the pass.
IngestStep_StoresEachStep(c, session, text, run) ==
    /\ fhist' = HistoryFrom(c, session, run)
    /\ trees' = [trees EXCEPT ![session] = Some(run.tree)]
    /\ IF run.pos = 0
         THEN
              /\ fpc' = [fpc EXCEPT ![c] = "done"]
              /\ fret' = [fret EXCEPT ![c] = Indexed(run.tree, run.count)]
              /\ flocal' = [flocal EXCEPT ![c] =
                     [NoFLocal EXCEPT !.session = session, !.text = Some(text),
                                      !.tree = Some(run.tree),
                                      !.count = run.count]]
         ELSE /\ fpc' = [fpc EXCEPT ![c] = "embed"]
              /\ flocal' = [flocal EXCEPT ![c] =
                     [NoFLocal EXCEPT !.session = session, !.text = Some(text),
                                      !.tree = Some(run.tree),
                                      !.pos = run.pos, !.count = run.count]]
              /\ fret' = [fret EXCEPT ![c] = NoFRet]

\* ingest goes on from the state run of the traversal.
IngestStep(c, session, text, run) ==
    /\ fhist' = HistoryFrom(c, session, run)
    /\ IF run.pos = 0
         THEN /\ trees' = [trees EXCEPT ![session] = Some(run.tree)]
              /\ fpc' = [fpc EXCEPT ![c] = "done"]
              /\ fret' = [fret EXCEPT ![c] = Indexed(run.tree, run.count)]
              /\ flocal' = [flocal EXCEPT ![c] =
                     [NoFLocal EXCEPT !.session = session, !.text = Some(text),
                                      !.tree = Some(run.tree),
                                      !.count = run.count]]
         ELSE /\ fpc' = [fpc EXCEPT ![c] = "embed"]
              /\ flocal' = [flocal EXCEPT ![c] =
                     [NoFLocal EXCEPT !.session = session, !.text = Some(text),
                                      !.tree = Some(run.tree),
                                      !.pos = run.pos, !.count = run.count]]
              /\ fret' = [fret EXCEPT ![c] = NoFRet]
              /\ UNCHANGED trees

\* has_tree, lines 264-265: the session is a key of self.trees.
has_tree(session) == trees[session] # None

\* An empty text removing the tree of the session.
IngestCall_ForgetsOnEmpty(c, session, text) ==
    /\ proc = "up" /\ fpc[c] = "idle" /\ LoopFree
    /\ LET tree == build_fractal_tree(text) IN
         IF tree = None
           THEN /\ fpc' = [fpc EXCEPT ![c] = "done"]
                /\ fret' = [fret EXCEPT ![c] = [NoFRet EXCEPT !.kind = "error"]]
                /\ flocal' = [flocal EXCEPT ![c] =
                       [NoFLocal EXCEPT !.session = session,
                                        !.text = Some(text)]]
                /\ trees' = [trees EXCEPT ![session] = None]
                /\ UNCHANGED fhist
           ELSE IngestStep(c, session, text, Advance(tree[1], 1, 0))
    /\ UNCHANGED <<proc, entries, file, tmp, lock, pc, local, ret, clock,
                   mutated, serial, hist, stub>>

\* ingest, lines 236-240: the tree is built; an empty text is an error; the
\* traversal runs to its first await.
IngestCall(c, session, text) ==
    /\ proc = "up" /\ fpc[c] = "idle" /\ LoopFree
    /\ LET tree == build_fractal_tree(text) IN
         IF tree = None
           THEN /\ fpc' = [fpc EXCEPT ![c] = "done"]
                /\ fret' = [fret EXCEPT ![c] = [NoFRet EXCEPT !.kind = "error"]]
                /\ flocal' = [flocal EXCEPT ![c] =
                       [NoFLocal EXCEPT !.session = session,
                                        !.text = Some(text)]]
                /\ UNCHANGED <<trees, fhist>>
           ELSE IngestStep(c, session, text, Advance(tree[1], 1, 0))
    /\ UNCHANGED <<proc, entries, file, tmp, lock, pc, local, ret, clock,
                   mutated, serial, hist, stub>>

IngestEmbed_CountsEveryCall(c, resp) ==
    /\ proc = "up" /\ fpc[c] = "embed" /\ c \in Ingesters /\ LoopFree
    /\ LET emb == get_embedding(resp)
           pos == flocal[c].pos
           tree == [flocal[c].tree[1] EXCEPT ![pos].embedding = emb]
           count == flocal[c].count + 1
       IN IngestStep(c, flocal[c].session, flocal[c].text[1],
                     Advance(tree, pos, count))
    /\ UNCHANGED <<proc, entries, file, tmp, lock, pc, local, ret, clock,
                   mutated, serial, hist, stub>>

\* Lines 136-139: the provider answers for the leaf at pos; the traversal
\* goes on.
IngestEmbed(c, resp) ==
    /\ proc = "up" /\ fpc[c] = "embed" /\ c \in Ingesters /\ LoopFree
    /\ LET emb == get_embedding(resp)
           pos == flocal[c].pos
           tree == [flocal[c].tree[1] EXCEPT ![pos].embedding = emb]
           count == flocal[c].count + (IF Truthy(emb) THEN 1 ELSE 0)
       IN IngestStep(c, flocal[c].session, flocal[c].text[1],
                     Advance(tree, pos, count))
    /\ UNCHANGED <<proc, entries, file, tmp, lock, pc, local, ret, clock,
                   mutated, serial, hist, stub>>

\* The caller takes the result of its call.
FractalReturn(c) ==
    /\ proc = "up" /\ fpc[c] = "done"
    /\ fpc' = [fpc EXCEPT ![c] = "idle"]
    /\ flocal' = [flocal EXCEPT ![c] = NoFLocal]
    /\ fret' = [fret EXCEPT ![c] = NoFRet]
    /\ UNCHANGED <<proc, entries, file, tmp, lock, pc, local, ret, clock,
                   mutated, serial, hist, trees, stub, fhist>>

\* ---------------------------------------------------- beam_search, line 161
\* seq[:k]: a negative k counts from the end.
PySlice(seq, k) ==
    IF k >= 0 THEN Prefix(seq, k) ELSE SubSeq(seq, 1, Max(Len(seq) + k, 0))

\* The result of a node: lines 172-173, 198-204 and 212-218.
Result(node, text, score) ==
    [text |-> text, score |-> Round4(score), level |-> node.level,
     start |-> node.start, end |-> node.end]

\* Lines 182-188: the beam with its scores, centroid or embedding, and 0.0
\* for a node that has neither.
ScoreOf(node, query_embedding) ==
    LET emb == IF Truthy(node.centroid) THEN node.centroid ELSE node.embedding
    IN IF Truthy(emb) THEN cosine_similarity(query_embedding, emb[1])
       ELSE NoSimilarity

RECURSIVE ScoredBeam(_, _, _)
ScoredBeam(tree, beam, query_embedding) ==
    IF beam = <<>> THEN <<>>
    ELSE << [score |-> ScoreOf(tree[beam[1]], query_embedding),
             node |-> beam[1]] >>
         \o ScoredBeam(tree, Tail(beam), query_embedding)

RECURSIVE InsertBeam_Asc(_, _)
InsertBeam_Asc(x, sorted) ==
    IF sorted = <<>> THEN <<x>>
    ELSE IF ScoreGreater(sorted[1].score, x.score) THEN <<x>> \o sorted
    ELSE <<sorted[1]>> \o InsertBeam_Asc(x, Tail(sorted))

\* scored.sort(key=lambda x: x[0], reverse=True): stable, on the scores as
\* they are before the rounding.
RECURSIVE InsertBeam(_, _)
InsertBeam(x, sorted) ==
    IF sorted = <<>> THEN <<x>>
    ELSE IF ScoreGreater(x.score, sorted[1].score) THEN <<x>> \o sorted
    ELSE <<sorted[1]>> \o InsertBeam(x, Tail(sorted))

RECURSIVE SortBeam(_)
SortBeam(xs) ==
    IF xs = <<>> THEN <<>>
    ELSE InsertBeam(xs[Len(xs)], SortBeam(SubSeq(xs, 1, Len(xs) - 1)))

\* The whole beam kept, whatever beam_width is.
TopNodes_WholeBeam(tree, beam, query_embedding, beam_width) ==
    SortBeam(ScoredBeam(tree, beam, query_embedding))

\* scored[beam_width:], the slice of the other side of the beam width.
TopNodes_Rest(tree, beam, query_embedding, beam_width) ==
    LET scored == SortBeam(ScoredBeam(tree, beam, query_embedding)) IN
    SubSeq(scored, Min(Max(beam_width, 0), Len(scored)) + 1, Len(scored))

\* scored[:beam_width]
TopNodes(tree, beam, query_embedding, beam_width) ==
    PySlice(SortBeam(ScoredBeam(tree, beam, query_embedding)), beam_width)

\* Every top node a result, with or without children.
RECURSIVE LeafResults_EveryTopNode(_, _)
LeafResults_EveryTopNode(tree, top_nodes) ==
    IF top_nodes = <<>> THEN <<>>
    ELSE LET node == tree[top_nodes[1].node] IN
         << Result(node, node.text, top_nodes[1].score) >>
         \o LeafResults_EveryTopNode(tree, Tail(top_nodes))

\* Lines 195-206: the leaves among the top nodes are results.
RECURSIVE LeafResults(_, _)
LeafResults(tree, top_nodes) ==
    IF top_nodes = <<>> THEN <<>>
    ELSE LET node == tree[top_nodes[1].node] IN
         (IF node.children = <<>>
            THEN << Result(node, node.text, top_nodes[1].score) >>
            ELSE <<>>)
         \o LeafResults(tree, Tail(top_nodes))

\* Lines 195-206: the children of the other top nodes are the next beam.
RECURSIVE NextBeam(_, _)
NextBeam(tree, top_nodes) ==
    IF top_nodes = <<>> THEN <<>>
    ELSE tree[top_nodes[1].node].children \o NextBeam(tree, Tail(top_nodes))

\* Lines 208-219: with no next beam, the top nodes that have children are
\* results, with the beginning of their text.
RECURSIVE InnerResults(_, _)
InnerResults(tree, top_nodes) ==
    IF top_nodes = <<>> THEN <<>>
    ELSE LET node == tree[top_nodes[1].node] IN
         (IF node.children # <<>>
            THEN << Result(node, Slice(node.text, 0, PREVIEW_TEXT),
                           top_nodes[1].score) >>
            ELSE <<>>)
         \o InnerResults(tree, Tail(top_nodes))

\* The loop of line 180: all_scored, from the beam on.
RECURSIVE BeamLoop(_, _, _, _)
BeamLoop(tree, current_beam, query_embedding, beam_width) ==
    IF current_beam = <<>> THEN <<>>
    ELSE LET top_nodes == TopNodes(tree, current_beam, query_embedding,
                                   beam_width)
             next_beam == NextBeam(tree, top_nodes)
         IN LeafResults(tree, top_nodes)
            \o (IF next_beam = <<>> THEN InnerResults(tree, top_nodes)
                ELSE BeamLoop(tree, next_beam, query_embedding, beam_width))

beam_search(tree, query_embedding, beam_width, top_k) ==
    IF tree[1].children = <<>>
      THEN IF Truthy(tree[1].embedding)
             THEN << Result(tree[1], tree[1].text,
                            cosine_similarity(query_embedding,
                                              tree[1].embedding[1])) >>
             ELSE <<>>
      ELSE PySlice(SortDesc(BeamLoop(tree, tree[1].children, query_embedding,
                                     beam_width)), top_k)

\* query, lines 254-258: the tree of the session is taken; without one the
\* result is the empty list; else the provider is awaited.
QueryCall(c, session, top_k) ==
    /\ proc = "up" /\ fpc[c] = "idle" /\ LoopFree
    /\ flocal' = [flocal EXCEPT ![c] =
           [NoFLocal EXCEPT !.session = session, !.tree = trees[session],
                            !.top_k = top_k]]
    /\ IF trees[session] = None
         THEN /\ fpc' = [fpc EXCEPT ![c] = "done"]
              /\ fret' = [fret EXCEPT ![c] = [NoFRet EXCEPT !.kind = "results"]]
         ELSE /\ fpc' = [fpc EXCEPT ![c] = "embed"]
              /\ fret' = [fret EXCEPT ![c] = NoFRet]
    /\ UNCHANGED <<proc, entries, file, tmp, lock, pc, local, ret, clock,
                   mutated, serial, hist, trees, stub, fhist>>

QueryEmbed_SearchesAnyway(c, resp) ==
    /\ proc = "up" /\ fpc[c] = "embed" /\ c \in Queriers /\ LoopFree
    /\ LET query_emb == get_embedding(resp) IN
         /\ flocal' = [flocal EXCEPT ![c].query_emb = query_emb]
         /\ fret' = [fret EXCEPT ![c] =
                [NoFRet EXCEPT
                   !.kind = "results",
                   !.results = beam_search(flocal[c].tree[1],
                                           IF Truthy(query_emb) THEN query_emb[1]
                                           ELSE <<>>,
                                           BEAM_WIDTH, flocal[c].top_k)]]
    /\ fpc' = [fpc EXCEPT ![c] = "done"]
    /\ UNCHANGED <<proc, entries, file, tmp, lock, pc, local, ret, clock,
                   mutated, serial, hist, trees, stub, fhist>>

\* query, lines 259-262: the provider answers; without a vector the result is
\* the empty list, else that of the beam search.
QueryEmbed(c, resp) ==
    /\ proc = "up" /\ fpc[c] = "embed" /\ c \in Queriers /\ LoopFree
    /\ LET query_emb == get_embedding(resp) IN
         /\ flocal' = [flocal EXCEPT ![c].query_emb = query_emb]
         /\ fret' = [fret EXCEPT ![c] =
                [NoFRet EXCEPT
                   !.kind = "results",
                   !.results = IF Truthy(query_emb)
                                 THEN beam_search(flocal[c].tree[1], query_emb[1],
                                                  BEAM_WIDTH, flocal[c].top_k)
                                 ELSE <<>>]]
    /\ fpc' = [fpc EXCEPT ![c] = "done"]
    /\ UNCHANGED <<proc, entries, file, tmp, lock, pc, local, ret, clock,
                   mutated, serial, hist, trees, stub, fhist>>

\* ----------------------------------------------------- the fractal index
\* The lengths of the texts ingested: empty, below the minimum of a leaf,
\* the one-node trees, the least tree with levels, one window of level 0, and
\* the text of 2000 characters.
IngestLengths == {0, 9, 10, 143, 144, 987, 2000}

QueryTopKs == {1, TOP_K}

QueryVecs == { <<16, 0>>, <<0, 16>>, <<16, 16>> }

QueryResponses ==
    { Response("error", <<>>, None), Response("ok", << <<>> >>, None) }
    \cup { Response("ok", <<v>>, None) : v \in QueryVecs }

\* One ingesting caller and one querying caller of one session, with a stub
\* provider that answers every text.
NextFractal ==
    \/ Construct
    \/ \E c \in OneIngester, session \in OneSession, n \in IngestLengths :
          IngestCall(c, session, TextOf(0, n))
    \/ \E c \in OneIngester :
          IngestEmbed(c, StubAnswer(stub, flocal[c].tree[1][flocal[c].pos].text))
    \/ \E c \in Queriers, session \in OneSession, top_k \in QueryTopKs :
          QueryCall(c, session, top_k)
    \/ \E c \in Queriers, resp \in QueryResponses : QueryEmbed(c, resp)
    \/ \E c \in FProcs : FractalReturn(c)

InitFractal ==
    /\ proc = "boot"
    /\ entries = <<>>
    /\ file = Absent
    /\ tmp = Absent
    /\ lock = None
    /\ pc = [p \in Procs |-> "idle"]
    /\ local = [p \in Procs |-> NoLocal]
    /\ ret = [p \in Procs |-> NoRet]
    /\ clock = 0
    /\ mutated = [c \in Callers |-> FALSE]
    /\ serial = FALSE
    /\ hist = <<>>
    /\ FractalInit
    /\ stub \in Stubs

SpecFractal == InitFractal /\ [][NextFractal]_vars

\* build_fractal_tree alone, called on a text of every length up to
\* MaxTextLen.
BuildTree(c, text) ==
    /\ proc = "up" /\ fpc[c] = "idle" /\ LoopFree
    /\ fpc' = [fpc EXCEPT ![c] = "done"]
    /\ flocal' = [flocal EXCEPT ![c] =
           [NoFLocal EXCEPT !.text = Some(text),
                            !.tree = build_fractal_tree(text)]]
    /\ fret' = [fret EXCEPT ![c] = [NoFRet EXCEPT !.kind = "tree"]]
    /\ UNCHANGED <<proc, entries, file, tmp, lock, pc, local, ret, clock,
                   mutated, serial, hist, trees, stub, fhist>>

NextBuild ==
    \/ Construct
    \/ \E c \in OneIngester, n \in 0..MaxTextLen : BuildTree(c, TextOf(0, n))
    \/ \E c \in OneIngester : FractalReturn(c)

InitTree == InitFractal /\ stub = "same"

SpecBuild == InitTree /\ [][NextBuild]_vars

\* The first ingest of a session, for a text of every length up to
\* MaxIngestLen and for the text of 2000 characters, with a provider that
\* answers every text with the same vector.
NextTree ==
    \/ Construct
    \/ \E c \in OneIngester, session \in OneSession,
          n \in (0..MaxIngestLen) \cup {2000} :
          /\ trees[session] = None
          /\ IngestCall(c, session, TextOf(0, n))
    \/ \E c \in OneIngester :
          IngestEmbed(c, StubAnswer(stub, flocal[c].tree[1][flocal[c].pos].text))
    \/ \E c \in OneIngester : FractalReturn(c)

SpecTree == InitTree /\ [][NextTree]_vars

\* beam_search alone, called on the tree of a session with a query vector,
\* a beam width and a top_k.
BeamSearch(c, session, query_embedding, beam_width, top_k) ==
    /\ proc = "up" /\ fpc[c] = "idle" /\ LoopFree
    /\ trees[session] # None
    /\ fpc' = [fpc EXCEPT ![c] = "done"]
    /\ flocal' = [flocal EXCEPT ![c] =
           [NoFLocal EXCEPT !.session = session, !.tree = trees[session],
                            !.top_k = top_k, !.beam_width = beam_width,
                            !.query_emb = Some(query_embedding)]]
    /\ fret' = [fret EXCEPT ![c] =
           [NoFRet EXCEPT !.kind = "beam",
                          !.results = beam_search(trees[session][1],
                                                  query_embedding, beam_width,
                                                  top_k)]]
    /\ UNCHANGED <<proc, entries, file, tmp, lock, pc, local, ret, clock,
                   mutated, serial, hist, trees, stub, fhist>>

\* The trees searched: the one node of a short text, the least tree with
\* levels, a tree of five leaves and the tree of the text of 2000 characters.
NextBeamSearch ==
    \/ Construct
    \/ \E c \in OneIngester, session \in OneSession, n \in {100, 144, 400, 2000} :
          /\ trees[session] = None
          /\ IngestCall(c, session, TextOf(0, n))
    \/ \E c \in OneIngester :
          IngestEmbed(c, StubAnswer(stub, flocal[c].tree[1][flocal[c].pos].text))
    \/ \E c \in Queriers, session \in OneSession, v \in QueryVecs,
          beam_width \in {1, 2, BEAM_WIDTH}, top_k \in QueryTopKs :
          BeamSearch(c, session, v, beam_width, top_k)
    \/ \E c \in FProcs : FractalReturn(c)

SpecBeam == InitFractal /\ [][NextBeamSearch]_vars

\* query with every kind of top_k, also 0 and below: of a session whose tree
\* is that of a text of 400 or of 2000 characters.
NextQuery ==
    \/ Construct
    \/ \E c \in OneIngester, session \in OneSession, n \in {400, 2000} :
          /\ trees[session] = None
          /\ IngestCall(c, session, TextOf(0, n))
    \/ \E c \in OneIngester :
          IngestEmbed(c, StubAnswer(stub, flocal[c].tree[1][flocal[c].pos].text))
    \/ \E c \in Queriers, session \in OneSession, top_k \in {-1, 0, 1, 2, TOP_K} :
          QueryCall(c, session, top_k)
    \/ \E c \in Queriers, resp \in QueryResponses : QueryEmbed(c, resp)
    \/ \E c \in FProcs : FractalReturn(c)

SpecQuery == InitFractal /\ [][NextQuery]_vars

\* Ingests of two sessions, one after the other, each session again and
\* again, and queries of them: the texts are empty, shorter than a leaf
\* window, of one leaf and of five leaves.
ReplaceResponses ==
    { Response("error", <<>>, None), Response("ok", << <<>> >>, None),
      Response("ok", << <<16, 0>> >>, None) }

NextReplace ==
    \/ Construct
    \/ \E c \in OneIngester, session \in Sessions, n \in {0, 100, 144, 400} :
          IngestCall(c, session, TextOf(0, n))
    \/ \E c \in OneIngester :
          IngestEmbed(c, StubAnswer(stub, flocal[c].tree[1][flocal[c].pos].text))
    \/ \E c \in Queriers, session \in Sessions : QueryCall(c, session, TOP_K)
    \/ \E c \in Queriers, resp \in ReplaceResponses : QueryEmbed(c, resp)
    \/ \E c \in FProcs : FractalReturn(c)

InitReplace == InitFractal /\ stub = "first"

SpecReplace == InitReplace /\ [][NextReplace]_vars

\* Two callers of ingest and a caller of query on one session, the calls
\* overlapping in every way.  The provider answers every text; a caller of
\* ingest calls once while another call awaits the provider.
RaceIngest(c) ==
    \E session \in OneSession, n \in {100, 144, 400} :
        /\ ~(/\ PassRunning(c)
             /\ \E i \in 1..Len(fhist) :
                    fhist[i].op = "call" /\ fhist[i].by = c)
        /\ IngestCall(c, session, TextOf(0, n))

RaceQuery(c) == \E session \in OneSession : QueryCall(c, session, TOP_K)

NextRace ==
    \/ Construct
    \/ \E c \in Ingesters : RaceIngest(c)
    \/ \E c \in Ingesters :
          IngestEmbed(c, StubAnswer(stub, flocal[c].tree[1][flocal[c].pos].text))
    \/ \E c \in Queriers : RaceQuery(c)
    \/ \E c \in Queriers, resp \in ReplaceResponses : QueryEmbed(c, resp)
    \/ \E c \in FProcs : FractalReturn(c)

\* The process comes up, a caller whose call has ended takes its result
\* (the event loop resumes it), and the callers of query go on calling.
FairRace ==
    /\ WF_vars(Construct)
    /\ \A c \in FProcs : WF_vars(FractalReturn(c))
    /\ \A c \in Queriers : WF_vars(RaceQuery(c))

SpecRace == InitReplace /\ [][NextRace]_vars /\ FairRace

\* chunk_text alone, called on a span of 0 to MaxSpan characters that begins
\* at the start of the text or inside it, with every window size and overlap
\* up to MaxWindow, also the sizes below 1 and the overlaps below 0 and
\* above the size.
ChunkText(c, text, chunk_size, overlap) ==
    /\ proc = "up" /\ fpc[c] = "idle" /\ LoopFree
    /\ fpc' = [fpc EXCEPT ![c] = "done"]
    /\ flocal' = [flocal EXCEPT ![c] =
           [NoFLocal EXCEPT !.text = Some(text), !.chunk_size = chunk_size,
                            !.overlap = overlap,
                            !.chunks = chunk_text(text, chunk_size, overlap)]]
    /\ fret' = [fret EXCEPT ![c] = [NoFRet EXCEPT !.kind = "chunks"]]
    /\ UNCHANGED <<proc, entries, file, tmp, lock, pc, local, ret, clock,
                   mutated, serial, hist, trees, stub, fhist>>

NextChunk ==
    \/ Construct
    \/ \E c \in OneIngester, from \in {0, 5}, n \in 0..MaxSpan,
          chunk_size \in -1..MaxWindow, overlap \in -1..(MaxWindow + 1) :
          ChunkText(c, TextOf(from, from + n), chunk_size, overlap)
    \/ \E c \in OneIngester : FractalReturn(c)

SpecChunk == InitTree /\ [][NextChunk]_vars

\* A provider that fails on some texts: what its call ends with is a function
\* of the text, the same at every call.
\*   ok     a body with the vector of the text
\*   error  an exception: transport error, timeout, bad status
\*   empty  a body whose vector is the empty list
FaultyAnswer(faults, text) ==
    LET sent == Slice(text, 0, MAX_TEXT_LENGTH) IN
    CASE faults[sent] = "ok" ->
            Response("ok", << StubVector("first", sent) >>, None)
      [] faults[sent] = "error" -> Response("error", <<>>, None)
      [] faults[sent] = "empty" -> Response("ok", << <<>> >>, None)

\* The texts ingested with that provider: the least tree with levels (one
\* leaf) and a tree of five leaves.
AbsorbLengths == {0, 144, 400}

\* The texts of the leaves of their trees.
LeafTexts ==
    UNION { LET tree == build_fractal_tree(TextOf(0, n))[1] IN
            { tree[i].text : i \in { j \in 2..Len(tree) :
                                       tree[j].children = <<>> } }
            : n \in AbsorbLengths \ {0} }

NextAbsorb ==
    \/ Construct
    \/ \E c \in OneIngester, session \in OneSession, n \in AbsorbLengths :
          IngestCall(c, session, TextOf(0, n))
    \/ \E c \in OneIngester :
          IngestEmbed(c, FaultyAnswer(stub, flocal[c].tree[1][flocal[c].pos].text))
    \/ \E c \in OneIngester : FractalReturn(c)

InitAbsorb ==
    /\ proc = "boot"
    /\ entries = <<>>
    /\ file = Absent
    /\ tmp = Absent
    /\ lock = None
    /\ pc = [p \in Procs |-> "idle"]
    /\ local = [p \in Procs |-> NoLocal]
    /\ ret = [p \in Procs |-> NoRet]
    /\ clock = 0
    /\ mutated = [c \in Callers |-> FALSE]
    /\ serial = FALSE
    /\ hist = <<>>
    /\ FractalInit
    /\ stub \in [LeafTexts -> {"ok", "error", "empty"}]

SpecAbsorb == InitAbsorb /\ [][NextAbsorb]_vars

\* The index calls of both callers of a store that starts empty, with a
\* provider that answers and a disk that does not fail, and a caller of stats
\* on a thread of its own.
NextStats ==
    \/ Construct
    \/ \E c \in Callers, meta \in Metas : IndexCall(c, <<" ", "a">>, meta)
    \/ \E c \in Callers : IndexEvict(c)
    \/ \E c \in Callers : IndexEmbed(c, StubResponse(local[c].text))
    \/ \E c \in Callers : IndexAppend(c)
    \/ \E c \in Callers : SaveOpen(c, TRUE)
    \/ \E c \in Callers : SaveWrite(c, TRUE)
    \/ \E c \in Callers : SaveReplace(c, TRUE)
    \/ \E c \in Callers : IndexReturn(c)
    \/ \E s \in Searchers : StatsCall(s)
    \/ \E s \in Searchers : StatsOldest(s)
    \/ \E s \in Searchers : StatsNewest(s)
    \/ \E s \in Searchers : SearchReturn(s)
    \/ Tick

SpecStats == InitTree /\ [][NextStats]_vars

\* Two index callers and a searcher whose calls overlap in every way, with
\* a provider that answers or fails and a disk that may fail while _save
\* writes; the process does not crash.
FairResponses ==
    { Response("error", <<>>, None), Response("ok", << <<1, 0>> >>, None) }

FairEmbed(c) == \E resp \in FairResponses : IndexEmbed(c, resp)

FairSave(c) ==
    \/ SaveOpen(c, TRUE)
    \/ \E ok \in BOOLEAN : SaveWrite(c, ok)
    \/ SaveReplace(c, TRUE)

NextFair ==
    \/ Construct
    \/ \E c \in Callers, text \in { <<" ">>, <<" ", "a">> }, meta \in Metas :
          IndexCall(c, text, meta)
    \/ \E c \in Callers : IndexEvict(c)
    \/ \E c \in Callers : FairEmbed(c)
    \/ \E c \in Callers : IndexAppend(c)
    \/ \E c \in Callers : FairSave(c)
    \/ \E c \in Callers : IndexReturn(c)
    \/ \E s \in Searchers : SearchCall(s, TOP_K)
    \/ \E s \in Searchers, resp \in FairResponses : SearchEmbed(s, resp)
    \/ \E s \in Searchers : SearchReturn(s)

\* The event loop runs a synchronous section of index to its end, and it
\* resumes a call whose provider call has answered: the call is resumed
\* when the loop is free, however often other calls occupy it in between.
\* The provider call answers or fails within the timeout of the client
\* (lines 74-75).
FairIndex ==
    \A c \in Callers :
        /\ WF_vars(IndexEvict(c))
        /\ SF_vars(FairEmbed(c))
        /\ WF_vars(IndexAppend(c))
        /\ WF_vars(FairSave(c))

SpecFair == InitTree /\ [][NextFair]_vars /\ FairIndex

\* ------------------------------------------------------------------ claims
\* C1: in every reachable state the number of entries is at most MAX_ENTRIES.
C1_SizeAtMostMax == Len(entries) <= MAX_ENTRIES

\* C2: an index call with a non-blank text whose provider call failed has
\* returned None and has changed neither self.entries nor the store file.
C2_ProviderFailureMutatesNothing ==
    \A c \in Callers :
        (pc[c] = "done" /\ local[c].failed) =>
            (ret[c].kind = "none" /\ ~mutated[c])

\* The last n elements of a sequence.
LastN(seq, n) == SubSeq(seq, Len(seq) - n + 1, Len(seq))

ResultIds(s) == { ret[s].results[i].id : i \in 1..Len(ret[s].results) }

C4_IndexCallsExclusive ==
    \A c, d \in Callers : (c # d) => ~(InProgress(c) /\ InProgress(d))

\* C5: with no index call in progress, a store constructed from the persisted
\* file has the entry list of the store in memory.
C5_ReloadRoundTrip ==
    (proc = "up" /\ \A c \in Callers : ~InProgress(c)) =>
        (~LoadRaises(file) /\ Load(file) = entries)

\* C6: the store file is never a partial write, a snapshot it holds has a
\* count equal to the length of its entries, and every change of the file
\* installs the complete snapshot of the entry list in memory.
C6_FileNeverPartial ==
    /\ [](/\ file.kind # "partial"
          /\ (file.kind = "object" /\ file.has_entries) =>
                 file.count = Len(file.entries))
    /\ [][file' # file => file' = Dump(entries)]_vars

\* C6 witness: the process died inside a save, after the temporary file was
\* opened and before it was whole, and the store file holds a snapshot.
C6_Witness ==
    /\ proc = "boot"
    /\ tmp.kind = "partial"
    /\ file.kind = "object" /\ Len(file.entries) > 0

\* C7: the constructor never raises.
C7_ConstructNeverFails == proc # "failed"

\* A text without a character that is not whitespace.
OnlyWhitespace(text) == \A i \in 1..Len(text) : text[i] \in Whitespace

\* C8: an index call with an empty or whitespace-only text ends at once with
\* None, without a provider call, and leaves the entry list (and so the count
\* of stats), the store file, the temporary file and the lock unchanged.
C8_BlankTextRejected ==
    [][\A c \in Callers :
          (pc[c] = "idle" /\ pc'[c] # "idle" /\ OnlyWhitespace(local'[c].text)) =>
              /\ pc'[c] = "done"
              /\ ret'[c].kind = "none"
              /\ entries' = entries /\ file' = file /\ tmp' = tmp /\ lock' = lock]_vars

\* C8 witness: a whitespace-only text was rejected by a store at capacity.
C8_Witness ==
    \E c \in Callers :
        /\ pc[c] = "done" /\ ret[c].kind = "none"
        /\ local[c].text = <<" ">>
        /\ Len(entries) >= MAX_ENTRIES

\* C9: no index call ends by raising, and no call that reported no id leaves
\* its entry in memory.
C9_IndexNeverRaises ==
    \A c \in Callers :
        pc[c] = "done" =>
            /\ ret[c].kind \in {"none", "id"}
            /\ (ret[c].kind = "none" => local[c].entry = None)

NonIncreasing(rs) == \A i \in 1..(Len(rs) - 1) : rs[i].score >= rs[i + 1].score

\* C11: every list a search returns is sorted by non-increasing score.
C11_ResultsSorted ==
    \A s \in Searchers : pc[s] = "done" => NonIncreasing(ret[s].results)

\* C11 witness: a search returned three results of three different scores
\* from a list that held them in another order.
C11_Witness ==
    \E s \in Searchers :
        /\ pc[s] = "done" /\ Len(ret[s].results) = 3
        /\ ret[s].results[1].score > ret[s].results[2].score
        /\ ret[s].results[2].score > ret[s].results[3].score
        /\ ret[s].results[1].timestamp > ret[s].results[3].timestamp

\* The number of entries of a list that carry a non-empty embedding.
NumEmbedded(es) == Cardinality({ i \in 1..Len(es) : Len(es[i].embedding) > 0 })

\* C12: with a succeeding provider the number of results of search(top_k) is
\* min(min(max(top_k, 1), 50), number of entries with a non-empty embedding).
C12_ResultCountClamped ==
    \A s \in Searchers :
        (pc[s] = "done" /\ ~local[s].failed) =>
            Len(ret[s].results) =
                Min(Min(Max(local[s].asked, 1), 50), NumEmbedded(ret[s].seen))

\* C12 witness: a search asked for more than 50 results of a store that holds
\* more than 50 entries with an embedding, and returned 50.
C12_Witness ==
    \E s \in Searchers :
        /\ pc[s] = "done" /\ ~local[s].failed
        /\ local[s].asked > 50
        /\ NumEmbedded(ret[s].seen) > 50
        /\ Len(ret[s].results) = 50

\* C13: a search whose provider call failed returns the empty list, and no
\* step of a search changes the entry list, the store file or the temporary
\* file.
C13_SearchFailsEmptyMutatesNothing ==
    /\ [](\A s \in Searchers :
            (pc[s] = "done" /\ local[s].failed) =>
                (ret[s].kind = "results" /\ ret[s].results = <<>>))
    /\ [][\A s \in Searchers :
            pc'[s] # pc[s] =>
                (entries' = entries /\ file' = file /\ tmp' = tmp)]_vars

\* C13 witness: the provider failed for a query of a store that holds
\* entries and a file, and the result is the empty list.
C13_Witness ==
    \E s \in Searchers :
        /\ pc[s] = "done" /\ local[s].failed
        /\ ret[s].results = <<>>
        /\ Len(entries) > 0 /\ file = Dump(entries)

\* A vector without a component that is not 0.
IsZero(v) == \A i \in 1..Len(v) : v[i] = 0

\* The entry and the query are a pair the similarity is not defined for.
Degenerate(emb, q) == Len(emb) # Len(q) \/ IsZero(emb) \/ IsZero(q)

\* The results hold the entry e with score 0.
RankedAtZero(rs, e) ==
    \E j \in 1..Len(rs) : rs[j].id = e.id /\ rs[j].score = 0

\* C14 as stated: every entry whose embedding has another length than the
\* query's, or is the zero vector (or the query's is), is in the ranking with
\* score 0; the ranking is whole when top_k is at least the number of entries.
C14_DegenerateScoredZeroAndRanked ==
    \A s \in Searchers :
        (pc[s] = "done" /\ ~local[s].failed
                        /\ local[s].top_k >= Len(ret[s].seen)) =>
            \A i \in 1..Len(ret[s].seen) :
                Degenerate(ret[s].seen[i].embedding,
                           local[s].query_embedding[1]) =>
                    RankedAtZero(ret[s].results, ret[s].seen[i])

\* C14, amended: the same of every entry that carries a non-empty embedding;
\* an entry whose embedding is the empty vector is not scored and not ranked.
C14_NonEmptyDegenerateScoredZeroAndRanked ==
    \A s \in Searchers :
        (pc[s] = "done" /\ ~local[s].failed
                        /\ local[s].top_k >= Len(ret[s].seen)) =>
            \A i \in 1..Len(ret[s].seen) :
                LET emb == ret[s].seen[i].embedding IN
                /\ (Len(emb) > 0
                      /\ Degenerate(emb, local[s].query_embedding[1])) =>
                        RankedAtZero(ret[s].results, ret[s].seen[i])
                /\ Len(emb) = 0 =>
                        \A j \in 1..Len(ret[s].results) :
                            ret[s].results[j].id # ret[s].seen[i].id

\* C14 witness: a query of length 2 ranked an entry of length 1 and an entry
\* that is the zero vector at 0, behind an entry of positive score.
C14_Witness ==
    \E s \in Searchers :
        /\ pc[s] = "done" /\ ~local[s].failed
        /\ local[s].query_embedding = Some(<<1, 0>>)
        /\ Len(ret[s].seen) = 3 /\ Len(ret[s].results) = 3
        /\ \E i, j \in 1..3 :
             /\ ret[s].seen[i].embedding = <<1>>
             /\ ret[s].seen[j].embedding = <<0, 0>>
             /\ RankedAtZero(ret[s].results, ret[s].seen[i])
             /\ RankedAtZero(ret[s].results, ret[s].seen[j])
        /\ ret[s].results[1].score > 0

\* C15: no two entries of the store have the same id.
C15_IdsUnique ==
    \A i, j \in 1..Len(entries) : i # j => entries[i].id # entries[j].id

\* The text ingest or build_fractal_tree was called with has n characters:
\* the root of its tree, one node or synthetic, ends at n.
TreeOfLength(tree, lo, hi) ==
    tree # None /\ tree[1][1].end >= lo /\ tree[1][1].end <= hi

\* C16: an ingest of a text of 10 to 143 characters with a succeeding
\* provider returns indexed with total_nodes = 1, leaf_count = 1 and
\* embeddings_generated = 1, and its one node has an embedding.
C16_FallbackLeafEmbedded ==
    \A c \in Ingesters :
        (fpc[c] = "done" /\ TreeOfLength(flocal[c].tree, 10, 143)) =>
            /\ fret[c].kind = "indexed"
            /\ fret[c].total_nodes = 1
            /\ fret[c].leaf_count = 1
            /\ fret[c].embeddings_generated = 1
            /\ Truthy(flocal[c].tree[1][1].embedding)

\* C17: a query with top_k >= 1 and a succeeding provider, of a session
\* whose tree is the one node of a text of 10 to 143 characters, returns
\* exactly one result, the node with span [0, len(text)).
C17_FallbackTreeQueried ==
    \A c \in Queriers :
        (fpc[c] = "done" /\ TreeOfLength(flocal[c].tree, 10, 143)
                         /\ Truthy(flocal[c].query_emb)
                         /\ flocal[c].top_k >= 1) =>
            /\ Len(fret[c].results) = 1
            /\ fret[c].results[1].start = 0
            /\ fret[c].results[1].end = flocal[c].tree[1][1].end

\* C18: an ingest of a text of at least 144 characters with a provider that
\* always answers a non-empty vector returns indexed with leaf_count >= 1 and
\* embeddings_generated = leaf_count; every node without children has an
\* embedding.
C18_EveryLeafEmbedded ==
    \A c \in Ingesters :
        (fpc[c] = "done" /\ TreeOfLength(flocal[c].tree, 144, MaxTextLen + 1)) =>
            LET tree == flocal[c].tree[1] IN
            /\ fret[c].kind = "indexed"
            /\ fret[c].leaf_count >= 1
            /\ fret[c].embeddings_generated = fret[c].leaf_count
            /\ fret[c].leaf_count =
                 Cardinality({ i \in 1..Len(tree) : tree[i].children = <<>> })
            /\ \A i \in 1..Len(tree) :
                 tree[i].children = <<>> => Truthy(tree[i].embedding)

\* C18 witness: the ingest of the text of 2000 characters has returned, with
\* more than one leaf and as many embeddings.
C18_Witness ==
    \E c \in Ingesters :
        /\ fpc[c] = "done" /\ TreeOfLength(flocal[c].tree, 2000, 2000)
        /\ fret[c].kind = "indexed"
        /\ fret[c].leaf_count > 1
        /\ fret[c].embeddings_generated = fret[c].leaf_count

\* The positions of a sequence of positions.
Members(seq) == { seq[i] : i \in 1..Len(seq) }

\* The nodes the beam search keeps: the top nodes of the beam of each level.
RECURSIVE KeptNodes(_, _, _, _)
KeptNodes(tree, beam, query_embedding, beam_width) ==
    IF beam = <<>> THEN {}
    ELSE LET top_nodes == TopNodes(tree, beam, query_embedding, beam_width) IN
         { top_nodes[i].node : i \in 1..Len(top_nodes) }
         \cup KeptNodes(tree, NextBeam(tree, top_nodes), query_embedding,
                        beam_width)

\* The leaf is the one leaf of the tree that holds the query's embedding, and
\* no other leaf has the score 1.0.
TheLeafOf(tree, leaf, query_emb) ==
    /\ tree[leaf].embedding = query_emb
    /\ \A other \in Members(get_leaves(tree, 1)) \ {leaf} :
         Round4(ScoreOf(tree[other], query_emb[1])) < SCORE_SCALE

\* The first result is the node, with score 1.0.
FirstResult(results, node) ==
    /\ results # <<>>
    /\ results[1].level = node.level
    /\ results[1].start = node.start /\ results[1].end = node.end
    /\ results[1].score = SCORE_SCALE

\* The node is in the results.
InResults(results, node) ==
    \E i \in 1..Len(results) :
        /\ results[i].level = node.level
        /\ results[i].start = node.start /\ results[i].end = node.end

\* C19 as stated: in the tree of a text of 2000 characters, a query with the
\* embedding of one leaf returns that leaf first with score 1.0, for every
\* leaf.
C19_EveryLeafFoundFirst ==
    \A c \in Queriers :
        (fpc[c] = "done" /\ TreeOfLength(flocal[c].tree, 2000, 2000)
                         /\ Truthy(flocal[c].query_emb)
                         /\ flocal[c].top_k >= 1) =>
            LET tree == flocal[c].tree[1] IN
            \A leaf \in Members(get_leaves(tree, 1)) :
                TheLeafOf(tree, leaf, flocal[c].query_emb) =>
                    FirstResult(fret[c].results, tree[leaf])

\* C19, amended: the leaf is returned first with score 1.0 when the beam
\* search keeps it, that is when the leaf and each of its ancestors is among
\* the BEAM_WIDTH best of the beam of its level, and is not returned when it
\* does not.
C19_KeptLeafFoundFirst ==
    \A c \in Queriers :
        (fpc[c] = "done" /\ TreeOfLength(flocal[c].tree, 2000, 2000)
                         /\ Truthy(flocal[c].query_emb)
                         /\ flocal[c].top_k >= 1) =>
            LET tree == flocal[c].tree[1] IN
            \A leaf \in Members(get_leaves(tree, 1)) :
                TheLeafOf(tree, leaf, flocal[c].query_emb) =>
                    IF leaf \in KeptNodes(tree, tree[1].children,
                                          flocal[c].query_emb[1], BEAM_WIDTH)
                      THEN FirstResult(fret[c].results, tree[leaf])
                      ELSE ~InResults(fret[c].results, tree[leaf])

\* C19 witness: the query has the embedding of one leaf of the tree of 2000
\* characters, and that leaf is the first of several results, with score 1.0.
C19_Witness ==
    \E c \in Queriers :
        /\ fpc[c] = "done" /\ TreeOfLength(flocal[c].tree, 2000, 2000)
        /\ Truthy(flocal[c].query_emb)
        /\ \E leaf \in Members(get_leaves(flocal[c].tree[1], 1)) :
             /\ TheLeafOf(flocal[c].tree[1], leaf, flocal[c].query_emb)
             /\ FirstResult(fret[c].results, flocal[c].tree[1][leaf])
        /\ Len(fret[c].results) > 1
        /\ fret[c].results[2].score < SCORE_SCALE

\* C20: the tree built for a text of at least 987 characters has exactly 5
\* levels: the children of the synthetic root have level 0, a child has its
\* parent's level plus 1, a node of level 0 to 3 has a child, and the nodes
\* without children are the nodes of level 4.
C20_FiveLevels ==
    \A c \in Ingesters :
        (fpc[c] = "done" /\ fret[c].kind = "tree"
                         /\ TreeOfLength(flocal[c].tree, 987, MaxTextLen + 1)) =>
            LET tree == flocal[c].tree[1] IN
            /\ tree[1].level = -1
            /\ \A p \in 1..Len(tree) : \A child \in Members(tree[p].children) :
                 tree[child].level = tree[p].level + 1
            /\ \A i \in 2..Len(tree) :
                 /\ (tree[i].level \in 0..3 => tree[i].children # <<>>)
                 /\ (tree[i].children = <<>> <=> tree[i].level = 4)
            /\ tree[1].children # <<>>
            /\ { tree[i].level : i \in 2..Len(tree) } = 0..4

\* C20 witness: a tree was built for a text that three windows of level 0
\* cover.
C20_Witness ==
    \E c \in Ingesters :
        /\ fpc[c] = "done" /\ fret[c].kind = "tree"
        /\ TreeOfLength(flocal[c].tree, 987, MaxTextLen + 1)
        /\ Len(flocal[c].tree[1][1].children) = 3

\* C21: chunk_text on a span of n >= 1 characters returns at least one and
\* at most n chunks (it terminates) for every window size s and overlap o,
\* the k-th chunk (from 0) starting at k * step, where step is s - o, or 1
\* when s - o is below 1; for s >= 1 and o >= 0 every chunk but the last has
\* s characters, the last has 1 to s characters and ends at n, every offset
\* of [0, n) lies in a chunk, and each chunk holds the characters of its
\* offsets.
C21_ChunksCoverSpan ==
    \A c \in Ingesters :
        (fpc[c] = "done" /\ fret[c].kind = "chunks"
                         /\ TextLen(flocal[c].text[1]) >= 1) =>
            LET text == flocal[c].text[1]
                n == TextLen(text)
                size == flocal[c].chunk_size
                step == IF size - flocal[c].overlap < 1 THEN 1
                        ELSE size - flocal[c].overlap
                chunks == flocal[c].chunks
                last == chunks[Len(chunks)]
            IN /\ Len(chunks) >= 1 /\ Len(chunks) <= n
               /\ \A k \in 1..Len(chunks) : chunks[k][1] = (k - 1) * step
               /\ (size >= 1 /\ flocal[c].overlap >= 0) =>
                    /\ \A k \in 1..(Len(chunks) - 1) :
                         chunks[k][2] - chunks[k][1] = size
                    /\ last[2] - last[1] >= 1 /\ last[2] - last[1] <= size
                    /\ last[2] = n
                    /\ \A x \in 0..(n - 1) : \E k \in 1..Len(chunks) :
                         chunks[k][1] <= x /\ x < chunks[k][2]
                    /\ \A k \in 1..Len(chunks) :
                         chunks[k][3] = TextOf(text.from + chunks[k][1],
                                               text.from + chunks[k][2])

\* C21 witness: a span inside the text was cut into three or more
\* overlapping chunks, the last one shorter than the window.
C21_Witness ==
    \E c \in Ingesters :
        /\ fpc[c] = "done" /\ fret[c].kind = "chunks"
        /\ flocal[c].text[1].from > 0
        /\ flocal[c].overlap >= 1 /\ flocal[c].overlap < flocal[c].chunk_size
        /\ Len(flocal[c].chunks) >= 3
        /\ LET last == flocal[c].chunks[Len(flocal[c].chunks)] IN
             last[2] - last[1] < flocal[c].chunk_size

\* A node carries a vector: it has one, and not the empty list.
Carries(opt) == Truthy(opt)

\* C22: when an ingest has completed, a node below the root that has children
\* carries a centroid if and only if one of its children carries an embedding
\* or a centroid; a node whose children carry neither has no centroid at all;
\* and no node carries both an embedding and a centroid.
C22_CentroidIffEligibleChild ==
    \A c \in Ingesters :
        (fpc[c] = "done" /\ fret[c].kind = "indexed") =>
            LET tree == flocal[c].tree[1] IN
            /\ \A i \in 2..Len(tree) :
                 tree[i].children # <<>> =>
                    LET eligible ==
                          \E child \in Members(tree[i].children) :
                              \/ Carries(tree[child].embedding)
                              \/ Carries(tree[child].centroid)
                    IN /\ Carries(tree[i].centroid) <=> eligible
                       /\ ~eligible => tree[i].centroid = None
            /\ \A i \in 1..Len(tree) :
                 ~(Carries(tree[i].embedding) /\ Carries(tree[i].centroid))

\* C22 witness: an ingest has completed with a tree in which one node with
\* children has a centroid and another has none, no child of it carrying a
\* vector, one of them holding the empty list.
C22_Witness ==
    \E c \in Ingesters :
        /\ fpc[c] = "done" /\ fret[c].kind = "indexed"
        /\ LET tree == flocal[c].tree[1] IN
             /\ \E i \in 2..Len(tree) :
                  tree[i].children # <<>> /\ Carries(tree[i].centroid)
             /\ \E i \in 2..Len(tree) :
                  /\ tree[i].children # <<>> /\ tree[i].centroid = None
                  /\ \E child \in Members(tree[i].children) :
                       tree[child].embedding = Some(<<>>)

\* The node is a descendant of the node above.
RECURSIVE Under(_, _, _)
Under(tree, node, above) ==
    LET p == ParentOf(tree, node) IN
    p # 0 /\ (p = above \/ Under(tree, p, above))

\* C23: while an ingest awaits the provider for a leaf, every leaf below a
\* node that has a centroid was visited before that leaf: the leaf awaited,
\* and the leaves still to come, are below no node that has a centroid.
C23_CentroidAfterDescendants ==
    \A c \in Ingesters :
        fpc[c] = "embed" =>
            LET tree == flocal[c].tree[1]
                pos == flocal[c].pos
            IN \A i \in 1..Len(tree) :
                 tree[i].centroid # None =>
                    \A leaf \in pos..Len(tree) :
                        tree[leaf].children = <<>> => ~Under(tree, leaf, i)

\* C23 witness: an ingest awaits the provider for a leaf, after a node got
\* its centroid and while an ancestor of the leaf has none yet.
C23_Witness ==
    \E c \in Ingesters :
        /\ fpc[c] = "embed"
        /\ LET tree == flocal[c].tree[1] IN
             /\ \E i \in 2..Len(tree) : tree[i].centroid # None
             /\ \E i \in 2..Len(tree) :
                  /\ tree[i].centroid = None
                  /\ Under(tree, flocal[c].pos, i)

\* The leaves of a tree whose text the provider answers with a vector.
Answered(tree, faults) ==
    { i \in 2..Len(tree) : tree[i].children = <<>> /\ faults[tree[i].text] = "ok" }

\* The vector a node has when exactly the answered leaves count: that of the
\* provider for an answered leaf, none for another leaf, and the mean of the
\* vectors of the children that have one for a node with children.
RECURSIVE VectorOf(_, _, _)
RECURSIVE VectorsOf(_, _, _)
VectorOf(tree, node, faults) ==
    IF tree[node].children = <<>>
      THEN IF node \in Answered(tree, faults)
             THEN Some(StubVector("first", tree[node].text))
             ELSE None
      ELSE LET vs == VectorsOf(tree, tree[node].children, faults) IN
           IF vs = <<>> THEN None
           ELSE Some([k \in 1..2 |-> SumAt(vs, k) \div Len(vs)])

VectorsOf(tree, nodes, faults) ==
    IF nodes = <<>> THEN <<>>
    ELSE (LET v == VectorOf(tree, nodes[1], faults) IN
          IF v = None THEN <<>> ELSE <<v[1]>>)
         \o VectorsOf(tree, Tail(nodes), faults)

\* C24: whatever the leaves on which the provider fails, the ingest returns
\* indexed; a leaf has an embedding exactly when its call succeeded, and it
\* is then the provider's vector; embeddings_generated is the number of those
\* leaves; and the centroid of every node with children is the mean over the
\* leaves below it that succeeded, level by level, the others left out.
C24_ProviderFailuresAbsorbed ==
    \A c \in Ingesters :
        (fpc[c] = "done" /\ flocal[c].tree # None) =>
            LET tree == flocal[c].tree[1] IN
            /\ fret[c].kind = "indexed"
            /\ fret[c].embeddings_generated = Cardinality(Answered(tree, stub))
            /\ fret[c].leaf_count =
                 Cardinality({ i \in 2..Len(tree) : tree[i].children = <<>> })
            /\ \A i \in 2..Len(tree) :
                 IF tree[i].children = <<>>
                   THEN /\ Carries(tree[i].embedding) <=> i \in Answered(tree, stub)
                        /\ i \in Answered(tree, stub) =>
                             tree[i].embedding = VectorOf(tree, i, stub)
                   ELSE tree[i].centroid = VectorOf(tree, i, stub)
            /\ trees[flocal[c].session] = flocal[c].tree

\* C24 witness: an ingest has returned indexed with five leaves, of which the
\* provider failed on the first (an exception) and on the last, answered the
\* empty list for another, and answered a vector for two.
C24_Witness ==
    \E c \in Ingesters :
        /\ fpc[c] = "done" /\ fret[c].kind = "indexed"
        /\ fret[c].leaf_count = 5 /\ fret[c].embeddings_generated = 2
        /\ LET tree == flocal[c].tree[1]
               leaves == get_leaves(tree, 1)
           IN /\ stub[tree[leaves[1]].text] = "error"
              /\ stub[tree[leaves[5]].text] # "ok"
              /\ \E i \in 2..4 : stub[tree[leaves[i]].text] = "empty"
              /\ \E i \in 2..Len(tree) :
                   tree[i].children # <<>> /\ tree[i].centroid = None
              /\ \E i \in 2..Len(tree) :
                   tree[i].children # <<>> /\ tree[i].centroid # None

\* C25: a query of a session without a tree, and a query whose text the
\* provider does not embed, return the empty list; and no step of a query
\* changes the tree of any session.
C25_QueryFailsEmptyChangesNoTree ==
    /\ [](\A c \in Queriers :
            (fpc[c] = "done" /\ (flocal[c].tree = None
                                  \/ ~Truthy(flocal[c].query_emb))) =>
                fret[c].kind = "results" /\ fret[c].results = <<>>)
    /\ [][\A c \in Queriers : fpc'[c] # fpc[c] => trees' = trees]_vars

\* C25 witness: a query of a session whose tree has several leaves ended
\* with the empty list because the provider gave no vector.
C25_Witness ==
    \E c \in Queriers :
        /\ fpc[c] = "done" /\ fret[c].kind = "results"
        /\ fret[c].results = <<>>
        /\ flocal[c].tree # None /\ flocal[c].query_emb = None
        /\ trees[flocal[c].session] = flocal[c].tree
        /\ Len(get_leaves(flocal[c].tree[1], 1)) > 1

\* The score of a node is at least that of the other.
ScoreAtLeast(tree, node, other, query_embedding) ==
    ~ScoreGreater(ScoreOf(tree[other], query_embedding),
                  ScoreOf(tree[node], query_embedding))

\* C26: beam_search with beam_width = 1 and top_k >= 1 on a tree with levels
\* keeps exactly one node of each level; the node kept is a child of the node
\* kept at the level above (of the root at level 0) and no child of that node
\* scores higher; and the result is one element, the leaf that was kept, with
\* its score.
C26_SinglePath ==
    \A c \in Queriers :
        (fpc[c] = "done" /\ fret[c].kind = "beam" /\ flocal[c].beam_width = 1
                         /\ flocal[c].top_k >= 1
                         /\ flocal[c].tree[1][1].children # <<>>) =>
            LET tree == flocal[c].tree[1]
                q == flocal[c].query_emb[1]
                kept == KeptNodes(tree, tree[1].children, q, 1)
            IN /\ \A level \in 0..(NUM_LEVELS - 1) :
                    Cardinality({ k \in kept : tree[k].level = level }) = 1
               /\ \A k \in kept :
                    LET p == ParentOf(tree, k) IN
                    /\ p = 1 \/ p \in kept
                    /\ \A other \in Members(tree[p].children) :
                         ScoreAtLeast(tree, k, other, q)
               /\ Len(fret[c].results) = 1
               /\ \E k \in kept :
                    /\ tree[k].children = <<>>
                    /\ fret[c].results[1] =
                         Result(tree[k], tree[k].text, ScoreOf(tree[k], q))

\* C26 witness: a search of width 1 in the tree of the text of 2000
\* characters has descended, at level 0, into a node that is not the first
\* child of the root because it scores higher than the first.
C26_Witness ==
    \E c \in Queriers :
        /\ fpc[c] = "done" /\ fret[c].kind = "beam" /\ flocal[c].beam_width = 1
        /\ TreeOfLength(flocal[c].tree, 2000, 2000)
        /\ Len(fret[c].results) = 1
        /\ LET tree == flocal[c].tree[1]
               q == flocal[c].query_emb[1]
               first == tree[1].children[1]
           IN \E k \in KeptNodes(tree, tree[1].children, q, 1) :
                /\ tree[k].level = 0 /\ k # first
                /\ ScoreGreater(ScoreOf(tree[k], q), ScoreOf(tree[first], q))

\* The result is that of a node the beam search of the query kept.
FromKept(tree, result, query_embedding, beam_width) ==
    \E k \in KeptNodes(tree, tree[1].children, query_embedding, beam_width) :
        /\ result.level = tree[k].level
        /\ result.start = tree[k].start /\ result.end = tree[k].end
        /\ result.score = Round4(ScoreOf(tree[k], query_embedding))

\* C27: the list returned by a query that searched a tree is sorted by
\* non-increasing score, has at most top_k elements, and each element is a
\* node that was among the BEAM_WIDTH nodes kept at some step of the beam
\* search.
C27_QuerySortedBoundedFromKept ==
    \A c \in Queriers :
        (fpc[c] = "done" /\ fret[c].kind = "results"
                         /\ flocal[c].tree # None
                         /\ Truthy(flocal[c].query_emb)) =>
            /\ NonIncreasing(fret[c].results)
            /\ Len(fret[c].results) <= flocal[c].top_k
            /\ \A i \in 1..Len(fret[c].results) :
                 FromKept(flocal[c].tree[1], fret[c].results[i],
                          flocal[c].query_emb[1], BEAM_WIDTH)

\* The tree without its vectors.
Bare(tree) ==
    [i \in 1..Len(tree) |-> [tree[i] EXCEPT !.embedding = None,
                                             !.centroid = None]]

\* C28: at the step that completes an ingest of a non-empty text, the session
\* maps to the tree of that ingest, whose nodes are those built from the new
\* text and no other, and the tree of every other session is what it was;
\* and while the caller has not taken the result the session maps to it.
C28_IngestReplacesTree ==
    /\ [][\A c \in OneIngester :
            (fpc[c] # "done" /\ fpc'[c] = "done"
                             /\ TextLen(flocal'[c].text[1]) > 0) =>
                LET session == flocal'[c].session IN
                /\ fret'[c].kind = "indexed"
                /\ trees'[session] = flocal'[c].tree
                /\ Bare(trees'[session][1]) =
                     build_fractal_tree(flocal'[c].text[1])[1]
                /\ \A other \in Sessions \ {session} :
                     trees'[other] = trees[other]]_vars
    /\ [](\A c \in OneIngester :
            (fpc[c] = "done" /\ fret[c].kind = "indexed") =>
                trees[flocal[c].session] = flocal[c].tree)

\* C28 witness: an ingest of session "a" has completed with the tree of one
\* leaf while a query still holds the tree of five leaves that it read from
\* the session before, and session "b" has a tree.
C28_Witness ==
    \E c \in OneIngester, q \in Queriers :
        /\ fpc[c] = "done" /\ fret[c].kind = "indexed"
        /\ flocal[c].session = "a" /\ fret[c].leaf_count = 1
        /\ trees["a"] = flocal[c].tree
        /\ fpc[q] = "embed" /\ flocal[q].session = "a"
        /\ Len(get_leaves(flocal[q].tree[1], 1)) = 5
        /\ trees["b"] # None

\* The tree of the embedding pass of the session that completed last, among
\* the calls that overlap.
LastPass(session) ==
    LET passes == { i \in 1..Len(fhist) :
                      fhist[i].op = "pass" /\ fhist[i].session = session }
    IN IF passes = {} THEN None
       ELSE fhist[CHOOSE i \in passes : \A j \in passes : j <= i].tree

\* C29: once every ingest call of the calls that overlapped has finished, the
\* session maps to the tree of the call whose embedding pass completed last.
C29_LastCompletedWins ==
    (\A c \in Ingesters : fpc[c] # "embed") =>
        \A session \in Sessions :
            LastPass(session) # None => trees[session] = LastPass(session)

\* C29 witness: two ingest calls of one session overlapped, the call made
\* first completed last, with another tree than the other call, and the
\* session maps to the tree of the call made first.
C29_Witness ==
    /\ Len(fhist) = 4
    /\ fhist[1].op = "call" /\ fhist[2].op = "call"
    /\ fhist[3].op = "pass" /\ fhist[4].op = "pass"
    /\ fhist[1].by = fhist[4].by /\ fhist[2].by = fhist[3].by
    /\ fhist[1].by # fhist[2].by
    /\ fhist[1].session = fhist[2].session
    /\ fhist[3].tree # fhist[4].tree
    /\ trees[fhist[1].session] = fhist[4].tree
    /\ \A c \in Ingesters : fpc[c] = "done"

\* The embedding and centroid pass of the tree has finished, the provider
\* answering every text: every leaf of MIN_LEAF_TEXT characters or more has
\* its embedding and every node with children below the root its centroid.
PassFinished(tree) ==
    \A i \in 2..Len(tree) :
        IF tree[i].children = <<>>
          THEN TextLen(tree[i].text) >= MIN_LEAF_TEXT =>
                  Truthy(tree[i].embedding)
          ELSE Truthy(tree[i].centroid)

\* A query holds a tree whose pass has not finished.
MidConstruction(c) ==
    flocal[c].tree # None /\ ~PassFinished(flocal[c].tree[1])

C31_LeavesAtLeastFifteen ==
    \A c \in Ingesters :
        (fpc[c] = "done" /\ fret[c].kind = "tree"
                         /\ TreeOfLength(flocal[c].tree, 144, MaxTextLen + 1)) =>
            LET tree == flocal[c].tree[1] IN
            /\ \A i \in 2..Len(tree) :
                 tree[i].children = <<>> =>
                     /\ tree[i].level = NUM_LEVELS - 1
                     /\ TextLen(tree[i].text) >= 15
                     /\ TextLen(tree[i].text) >= MIN_LEAF_TEXT
            /\ \A p \in 1..Len(tree) : \A k \in 2..Len(tree[p].children) :
                 LET node == tree[tree[p].children[k]] IN
                 TextLen(node.text) > FIBONACCI_OVERLAPS[node.level + 1]

\* C31 witness: a tree was built whose second leaf has exactly 15 characters.
C31_Witness ==
    \E c \in Ingesters :
        /\ fpc[c] = "done" /\ fret[c].kind = "tree"
        /\ TreeOfLength(flocal[c].tree, 144, MaxTextLen + 1)
        /\ \E i \in 2..Len(flocal[c].tree[1]) :
             /\ flocal[c].tree[1][i].children = <<>>
             /\ flocal[c].tree[1][i].start > 0
             /\ TextLen(flocal[c].tree[1][i].text) = 15

\* C32: a query returns at most BEAM_WIDTH results, whatever top_k is: fewer
\* than the default top_k of 5.
C32_AtMostBeamWidthResults ==
    \A c \in Queriers :
        (fpc[c] = "done" /\ fret[c].kind = "results") =>
            /\ Len(fret[c].results) <= BEAM_WIDTH
            /\ Len(fret[c].results) < TOP_K

\* C32 witness: a query with top_k = 5 of a tree with more than 5 leaves has
\* returned exactly BEAM_WIDTH results.
C32_Witness ==
    \E c \in Queriers :
        /\ fpc[c] = "done" /\ fret[c].kind = "results"
        /\ flocal[c].top_k = TOP_K
        /\ flocal[c].tree # None
        /\ Len(get_leaves(flocal[c].tree[1], 1)) > TOP_K
        /\ Len(fret[c].results) = BEAM_WIDTH

\* The beams of the loop of line 180 from the i-th on: the nodes of the i-th
\* beam have level i, and where the loop ends no top node has children, so
\* that lines 210-218 add nothing.
RECURSIVE BeamsByLevel(_, _, _, _, _)
BeamsByLevel(tree, current_beam, query_embedding, beam_width, i) ==
    IF current_beam = <<>> THEN TRUE
    ELSE LET top_nodes == TopNodes(tree, current_beam, query_embedding,
                                   beam_width)
             next_beam == NextBeam(tree, top_nodes)
         IN /\ \A node \in Members(current_beam) : tree[node].level = i
            /\ IF next_beam = <<>>
                 THEN InnerResults(tree, top_nodes) = <<>>
                 ELSE BeamsByLevel(tree, next_beam, query_embedding,
                                   beam_width, i + 1)

\* C33: in a beam search of the tree of a text of at least 144 characters
\* the nodes of the i-th beam have level i, every result is a node of
\* level 4 without children, with its whole text, and no result comes from
\* the branch of the nodes with children.
C33_BeamDescendsByLevel ==
    \A c \in Queriers :
        (fpc[c] = "done" /\ fret[c].kind = "beam"
                         /\ TreeOfLength(flocal[c].tree, 144, MaxTextLen + 1)) =>
            LET tree == flocal[c].tree[1] IN
            /\ BeamsByLevel(tree, tree[1].children, flocal[c].query_emb[1],
                            flocal[c].beam_width, 0)
            /\ \A k \in 1..Len(fret[c].results) :
                 LET r == fret[c].results[k] IN
                 /\ r.level = NUM_LEVELS - 1
                 /\ \E i \in 2..Len(tree) :
                      /\ tree[i].children = <<>>
                      /\ tree[i].start = r.start /\ tree[i].end = r.end
                      /\ tree[i].text = r.text

\* C33 witness: a beam search of width 2 of the tree of the text of 2000
\* characters has returned two leaves.
C33_Witness ==
    \E c \in Queriers :
        /\ fpc[c] = "done" /\ fret[c].kind = "beam"
        /\ TreeOfLength(flocal[c].tree, 2000, 2000)
        /\ flocal[c].beam_width = 2
        /\ Len(fret[c].results) = 2
        /\ fret[c].results[1].level = 4

\* The number of iterations of the loop of line 180 from a beam on.
RECURSIVE BeamIterations(_, _, _, _)
BeamIterations(tree, current_beam, query_embedding, beam_width) ==
    IF current_beam = <<>> THEN 0
    ELSE LET next_beam == NextBeam(tree, TopNodes(tree, current_beam,
                                                  query_embedding, beam_width))
         IN 1 + (IF next_beam = <<>> THEN 0
                 ELSE BeamIterations(tree, next_beam, query_embedding,
                                     beam_width))

\* C34: a beam search with beam_width >= 1 has ended, after at most 5
\* iterations of its loop: none for the one node of a short text, and one
\* for each of the 5 levels of the tree of a text of at least 144
\* characters, whatever the scores.
C34_BeamSearchTerminates ==
    \A c \in Queriers :
        (fpc[c] = "done" /\ fret[c].kind = "beam"
                         /\ flocal[c].beam_width >= 1) =>
            LET tree == flocal[c].tree[1]
                n == IF tree[1].children = <<>> THEN 0
                     ELSE BeamIterations(tree, tree[1].children,
                                         flocal[c].query_emb[1],
                                         flocal[c].beam_width)
            IN /\ n <= NUM_LEVELS
               /\ TreeOfLength(flocal[c].tree, 144, MaxTextLen + 1) =>
                      n = NUM_LEVELS
               /\ TreeOfLength(flocal[c].tree, 1, 143) => n = 0

\* C34 witness: a beam search of width BEAM_WIDTH of the tree of the text of
\* 2000 characters has ended after 5 iterations.
C34_Witness ==
    \E c \in Queriers :
        /\ fpc[c] = "done" /\ fret[c].kind = "beam"
        /\ flocal[c].beam_width = BEAM_WIDTH
        /\ TreeOfLength(flocal[c].tree, 2000, 2000)
        /\ BeamIterations(flocal[c].tree[1], flocal[c].tree[1][1].children,
                          flocal[c].query_emb[1], BEAM_WIDTH) = NUM_LEVELS
        /\ fret[c].results # <<>>

\* C35: with index calls interleaved in every way, a step changes
\* self.entries only by appending the entry of the call that takes it, or by
\* the eviction of a call, which removes the head and nothing else: every
\* other entry, also the one another call has just appended, stays, and no
\* other call is between its append and its return at that moment.
C35_EntriesLeaveOnlyAtHead ==
    [][proc = "up" =>
         \/ entries' = entries
         \/ \E c \in Callers :
               /\ pc[c] = "append"
               /\ entries' = Append(entries, local[c].entry[1])
         \/ \E c \in Callers :
               /\ pc[c] = "evict"
               /\ entries # <<>>
               /\ entries' = Tail(entries)
               /\ \A d \in Callers \ {c} :
                    pc[d] \notin {"append", "save_open", "save_write",
                                  "save_replace"}]_vars

\* C35 witness: a call has evicted and awaits the provider while the entry
\* of another call, which has returned an id, is the last of the list.
C35_Witness ==
    \E c, d \in Callers :
        /\ c # d
        /\ pc[c] = "embed" /\ mutated[c]
        /\ pc[d] = "done" /\ ret[d].kind = "id"
        /\ entries # <<>>
        /\ entries[Len(entries)] = local[d].entry[1]

\* The calls that have evicted and have not yet appended or ended.
Evicting == { c \in Callers : pc[c] \in {"embed", "append"} /\ mutated[c] }

\* C36: the evictions performed so far are at most the entries appended
\* since the store first held MAX_ENTRIES entries.  The store starts empty
\* and a step changes its length by at most one, so with E evictions and A
\* such appends it holds MAX_ENTRIES + A - E entries, and E <= A says that a
\* store that has reached MAX_ENTRIES entries never has fewer again.  The
\* eviction of a call that is still to append is not counted against it: the
\* entries and the calls that have evicted for their append never fall
\* below MAX_ENTRIES, in particular not when a call ends without an append.
C36_EvictionsWithinAppends ==
    [][(proc = "up" /\ Len(entries) + Cardinality(Evicting) >= MAX_ENTRIES) =>
          Len(entries') + Cardinality(Evicting') >= MAX_ENTRIES]_vars

\* The timestamps of a list of entries.
Timestamps(es) == { es[i].timestamp : i \in 1..Len(es) }

C38_EmptyIngestKeepsTrees ==
    [][/\ \A c \in Ingesters :
            (fpc[c] = "idle" /\ fpc'[c] # "idle"
                             /\ flocal'[c].text = Some(EmptyText)) =>
               /\ fpc'[c] = "done"
               /\ fret'[c].kind = "error"
               /\ fret'[c].embeddings_generated = 0
               /\ trees' = trees
               /\ \A s \in Sessions : has_tree(s)' = has_tree(s)
       /\ \A s \in Sessions : has_tree(s) => has_tree(s)']_vars

\* C38 witness: an ingest of an empty text has returned an error for a
\* session that has a tree from an earlier ingest.
C38_Witness ==
    \E c \in Ingesters :
        /\ fpc[c] = "done" /\ fret[c].kind = "error"
        /\ flocal[c].text = Some(EmptyText)
        /\ has_tree(flocal[c].session)
        /\ \E s \in Sessions : ~has_tree(s)

\* C39: in the tree that build_fractal_tree returns for a text, every node
\* below the synthetic root has 0 <= start < end <= len(text) and the text
\* text[start:end]; the span of every child lies within the span of its
\* parent; and the children of a node cover its span: the first begins
\* where the parent begins, the last ends where the parent ends, and
\* each begins no later than the one before it ends.
C39_SpansNestedAndCovered ==
    \A c \in OneIngester :
        (fpc[c] = "done" /\ fret[c].kind = "tree" /\ flocal[c].tree # None) =>
            LET tree == flocal[c].tree[1]
                n == TextLen(flocal[c].text[1])
            IN /\ \A k \in 1..Len(tree) :
                     tree[k].level >= 0 =>
                        /\ 0 <= tree[k].start
                        /\ tree[k].start < tree[k].end
                        /\ tree[k].end <= n
                        /\ tree[k].text = Slice(flocal[c].text[1],
                                                tree[k].start, tree[k].end)
               /\ \A j \in 1..Len(tree) :
                     LET kids == tree[j].children IN
                     /\ \A i \in 1..Len(kids) :
                           /\ tree[j].start <= tree[kids[i]].start
                           /\ tree[kids[i]].end <= tree[j].end
                     /\ kids # <<>> =>
                           /\ tree[kids[1]].start = tree[j].start
                           /\ tree[kids[Len(kids)]].end = tree[j].end
                           /\ \A i \in 1..(Len(kids) - 1) :
                                 tree[kids[i + 1]].start <= tree[kids[i]].end

\* C39 witness: a tree with a synthetic root in which a node that does not
\* begin the text has several children.
C39_Witness ==
    \E c \in OneIngester :
        /\ fpc[c] = "done" /\ fret[c].kind = "tree" /\ flocal[c].tree # None
        /\ LET tree == flocal[c].tree[1] IN
             /\ tree[1].level = -1
             /\ \E j \in 2..Len(tree) :
                   /\ tree[j].start > 0
                   /\ Len(tree[j].children) > 1

\* C40: a call that awaits the provider does not hold the store lock; the
\* lock that a call has acquired is released, also when _save raises; and,
\* the loop being fair and the provider answering or failing, every index
\* call that has begun ends with its result, whatever index and search
\* calls overlap with it.
C40_IndexCallsReturn ==
    /\ [](\A c \in Callers : pc[c] = "embed" => lock # Some(c))
    /\ \A c \in Callers : (lock = Some(c)) ~> (lock = None)
    /\ \A c \in Callers : (pc[c] \notin {"idle", "done"}) ~> (pc[c] = "done")

\* C40 witness: a call that evicted and appended has returned its id while
\* the other index call and a search await the provider.
C40_Witness ==
    \E c, d \in Callers :
        /\ c # d
        /\ pc[c] = "done" /\ ret[c].kind = "id" /\ Len(entries) = MAX_ENTRIES
        /\ pc[d] = "embed"
        /\ \E s \in Searchers : pc[s] = "embed"
        /\ lock = None
====
